---- MODULE Spec2Model ----
(***************************************************************************)
(* The request-defense layer of the appeal server: the ban store           *)
(* (server/advanced-security.ts: the in-memory map and the Redis keys      *)
(* blocked:<ip>), the ban gate, the middlewares in the order               *)
(* server/index.ts registers them (the detectors, the request timeout, the *)
(* speed limiter and the global rate limiter of server/security.ts), the   *)
(* admin routes and the appeals route (server/routes.ts) and the honeypot  *)
(* routes.                                                                 *)
(*                                                                         *)
(* Time is Date.now() in milliseconds.  A handler runs without a break     *)
(* until it awaits: a reply of Redis (redis.get in the ban gate,           *)
(* redis.setex in blockIP, redis.del in unblockIP), the body of the        *)
(* request in the body parsers, the timer of the speed limiter, the answer *)
(* of the captcha service and the JSON value read from it.  `inflight`     *)
(* holds what is waiting; Redis answers the commands of the one connection *)
(* in the order they were sent, and the replies that come in one read      *)
(* settle their promises before any code that awaits them runs.  blockIP,  *)
(* the ban check and unblockIP are async functions: the settling of a      *)
(* promise queues the function that awaits it as a microtask, and its      *)
(* return queues its caller, one turn for each await on the way up to the  *)
(* middleware or the route.  Without a Redis client these functions run to *)
(* their end when they are called, and the code after `await` in their     *)
(* caller runs in a later microtask.  Microtasks run in the order they     *)
(* were queued, before the event loop takes the next event (a chunk of a   *)
(* connection, a read of replies, a timer); the requests of one chunk      *)
(* enter their handlers one after the other before any microtask runs.     *)
(* requestTimeout gives the socket of the request an idle timeout and      *)
(* listens for the 'timeout' event of the request, which the server emits  *)
(* when the timeout is due and the request has not been received           *)
(* completely: the callback answers 408, and when a response has gone out  *)
(* already (the socket, kept alive, has been idle for keepAliveTimeout and *)
(* the second Node adds to it) it throws and the process ends.  The socket *)
(* of a request received completely is destroyed when its timeout is due,  *)
(* and what the handler sends later is dropped.                            *)
(*                                                                         *)
(* Strings the code inspects (paths, addresses, header values) are tuples  *)
(* of characters, so that startsWith, includes, toLowerCase, split, trim   *)
(* and the CIDR tests are computed.  A Map is a function whose DOMAIN is   *)
(* the set of keys present.                                                *)
(*                                                                         *)
(* One server process runs at a time (ecosystem config: instances 1,       *)
(* fork); Restart replaces it by a new process with empty maps.  Redis is  *)
(* shared: one key per origin holding the expiry computed when blockIP was *)
(* called, with a TTL counted from the moment Redis takes the command.     *)
(* mongoSanitize and hpp rewrite req.body; helmet and the request logger   *)
(* change nothing the model carries and are left out.                      *)
(***************************************************************************)
EXTENDS Integers, Sequences, FiniteSets, TLC

VARIABLES
    now,        \* Date.now(), ms
    redisOn,    \* the default export of redis-client.ts is a client (TRUE) or null
    redisStore, \* Redis: origin -> value and end of TTL of the key blocked:<origin>
    blocked,    \* IN_MEMORY_BLOCKED_IPS of the running process
    tracking,   \* IN_MEMORY_REQUEST_TRACKING of the running process
    patterns,   \* IN_MEMORY_PATTERNS of the running process
    limits,     \* the stores of the rate limiters and of the speed limiter
    sweepDue,   \* the instant the next setInterval sweep is due
    adminKeyEnv,\* process.env.SECURITY_ADMIN_KEY
    captchaEnv, \* process.env.HCAPTCHA_SECRET_KEY
    resp,       \* the last response sent, with the request it answers
    ledger,     \* history: per origin, the last blockIP call that returned
    floodHits,  \* history: per origin, how often connectionFloodDetection banned it
    burst,      \* history: per origin, the API requests sent since it was last clear
    faultsUsed, \* history: Redis calls that have thrown so far
    epoch,      \* history: how many times the process has been restarted
    nreq,       \* responses sent so far
    narr,       \* requests that have arrived so far
    nticks,     \* Tick steps taken so far
    inflight,   \* the handlers and detached calls that are waiting, oldest first
    chunk       \* the parser is delivering the requests of one chunk: handlers
                \* wait at their first microtask and no microtask has run

vars == <<now, redisOn, redisStore, blocked, tracking, patterns, limits, sweepDue,
          adminKeyEnv, captchaEnv, resp, ledger, floodHits, burst, faultsUsed,
          epoch, nreq, narr, nticks, inflight, chunk>>

----------------------------------------------------------------------------
(* Bounds of the model *)

MaxReq == 3
MaxTicks == 1
MaxFaults == 1
MaxRestarts == 1
MaxInflight == 2
MaxFloodReq == 62
MaxFloodTicks == 1
FloodSpanMs == 9000
MaxDetectReq == 2
MaxBotReq == 6
MaxTimeoutReq == 3
MaxRapidReq == 36
MaxProxyReq == 2
MaxWindowReq == 32
MaxWindowTicks == 2
MaxPrintReq == 3
MaxDetachedReq == 3
MaxViolations == 50
MaxAppealReq == 4
MaxLimitReq == 102
MaxLimitTicks == 4
BurstSize == 35
MaxNest == 12
StartTime == 100000000

(* Program constants *)

MsPerMinute == 60000
HoneypotMinutes == 1440
MethodMinutes == 15
TraversalMinutes == 180
HeaderMinutes == 360
PayloadSizeMinutes == 30
ParserLimitBytes == 10240
RequestTimeoutMs == 30000
KeepAliveMs == 6000
PayloadDepthMinutes == 60
FloodWindowMs == 10000
FloodLimit == 30
FloodWarn == 20
FloodStepMinutes == 30
FloodCapMinutes == 1440
RapidWindowMs == 1000
RapidLimit == 5
RapidMinutes == 60
FingerprintLimit == 3
FingerprintMinutes == 120
FingerprintLen == 32
PatternsMax == 10000
PatternsCutoffMs == 60000
SweepIntervalMs == 300000
TrackingGcMs == 3600000
GlobalWindowMs == 900000
GlobalMax == 100
SlowWindowMs == 900000
SlowDelayAfter == 50
SlowStepMs == 100
SlowMaxDelayMs == 5000
AppealsWindowMs == 3600000
AppealsMax == 3
UserWindowMs == 86400000
UserMax == 5
FailedWindowMs == 300000
FailedMax == 10
UserIdMinLen == 17
UserIdMaxLen == 19
ReasonMinLen == 10
ReasonMaxLen == 2000

----------------------------------------------------------------------------
(* Strings as tuples of characters *)

StartsWith(s, pre) ==
    /\ Len(s) >= Len(pre)
    /\ SubSeq(s, 1, Len(pre)) = pre

Includes(s, pat) ==
    \E i \in 1..(Len(s) - Len(pat) + 1) : SubSeq(s, i, i + Len(pat) - 1) = pat

\* the index of the first occurrence of the character, 0 when there is none
IndexOf(s, ch) ==
    IF \E i \in 1..Len(s) : s[i] = ch
    THEN CHOOSE i \in 1..Len(s) : s[i] = ch /\ \A j \in 1..(i - 1) : s[j] # ch
    ELSE 0

\* The characters of the model with their code units: the printable ASCII
\* characters (the grave accent, which a string of the module cannot hold,
\* left out), tab, line feed, form feed and carriage return, and Latin-1
\* from the no-break space on, which is what Node makes of the bytes 0xA0 to
\* 0xFF of a header.
AsciiFromSpace == " !\"#$%&'()*+,-./0123456789:;<=>?@ABCDEFGHIJKLMNOPQRSTUVWXYZ[\\]^_"

AsciiFromLowerA == "abcdefghijklmnopqrstuvwxyz{|}~"

Latin1FromNbsp == " ¡¢£¤¥¦§¨©ª«¬­®¯°±²³´µ¶·¸¹º»¼½¾¿ÀÁÂÃÄÅÆÇÈÉÊËÌÍÎÏÐÑÒÓÔÕÖ×ØÙÚÛÜÝÞßàáâãäåæçèéêëìíîïðñòóôõö÷øùúûüýþÿ"

CodesOf(table, first) ==
    [ch \in {SubSeq(table, i, i) : i \in 1..Len(table)} |->
        first - 1 + CHOOSE i \in 1..Len(table) : SubSeq(table, i, i) = ch]

\* String.prototype.charCodeAt
charCodeAt ==
    CodesOf(AsciiFromSpace, 32) @@ CodesOf(AsciiFromLowerA, 97)
        @@ CodesOf(Latin1FromNbsp, 160)
        @@ ("\t" :> 9) @@ ("\n" :> 10) @@ ("\f" :> 12) @@ ("\r" :> 13)

\* the code units of the capital letters: A to Z, and those of Latin-1
UpperCodes == (65..90) \cup (192..214) \cup (216..222)

\* the small letter of every capital: the character 32 code units further on
LowerOf ==
    LET Lower(codes) ==
            [ch \in {x \in DOMAIN codes : codes[x] \in UpperCodes} |->
                CHOOSE low \in DOMAIN codes : codes[low] = codes[ch] + 32]
    IN  Lower(charCodeAt)

\* String.prototype.toLowerCase
ToLowerCase(s) ==
    LET Lowered(lower) ==
            [i \in 1..Len(s) |-> IF s[i] \in DOMAIN lower THEN lower[s[i]] ELSE s[i]]
    IN  Lowered(LowerOf)

\* the code units String.prototype.trim strips: WhiteSpace and LineTerminator
\* of the language (tab, line feed, vertical tab, form feed, carriage return,
\* space, no-break space, the space separators, the byte order mark)
WhiteSpaceCodes ==
    {9, 10, 11, 12, 13, 32, 160, 5760, 8232, 8233, 8239, 8287, 12288, 65279}
        \cup 8192..8202

WhiteSpace ==
    LET White(codes) == {ch \in DOMAIN codes : codes[ch] \in WhiteSpaceCodes}
    IN  White(charCodeAt)

\* String.prototype.trim: the white space at both ends goes, CR and LF included
Trim(s) ==
    LET Cut(keep) ==
            IF keep = {} THEN <<>>
            ELSE SubSeq(s, CHOOSE i \in keep : \A j \in keep : i <= j,
                           CHOOSE i \in keep : \A j \in keep : j <= i)
    IN  Cut({i \in 1..Len(s) : s[i] \notin WhiteSpace})

\* Buffer.from(string): the UTF-8 encoding, one byte for a code unit below
\* 128, two for one below 2048, three for the others
RECURSIVE Utf8(_)
Utf8(s) ==
    IF s = <<>> THEN <<>>
    ELSE LET Bytes(cp) ==
                 IF cp < 128 THEN <<cp>>
                 ELSE IF cp < 2048 THEN <<192 + (cp \div 64), 128 + (cp % 64)>>
                 ELSE <<224 + (cp \div 4096), 128 + ((cp \div 64) % 64),
                        128 + (cp % 64)>>
         IN  Bytes(charCodeAt[Head(s)]) \o Utf8(Tail(s))

Base64Alphabet == "ABCDEFGHIJKLMNOPQRSTUVWXYZabcdefghijklmnopqrstuvwxyz0123456789+/"

Base64Char(n) == SubSeq(Base64Alphabet, n + 1, n + 1)

\* buffer.toString('base64'): four characters for every three bytes, the last
\* group padded with "="
RECURSIVE Base64(_)
Base64(bytes) ==
    LET Three(a, b, c) ==
            <<Base64Char(a \div 4), Base64Char((a % 4) * 16 + b \div 16),
              Base64Char((b % 16) * 4 + c \div 64), Base64Char(c % 64)>>
        Two(a, b) ==
            <<Base64Char(a \div 4), Base64Char((a % 4) * 16 + b \div 16),
              Base64Char((b % 16) * 4), "=">>
        One(a) == <<Base64Char(a \div 4), Base64Char((a % 4) * 16), "=", "=">>
    IN  IF Len(bytes) = 0 THEN <<>>
        ELSE IF Len(bytes) = 1 THEN One(bytes[1])
        ELSE IF Len(bytes) = 2 THEN Two(bytes[1], bytes[2])
        ELSE Three(bytes[1], bytes[2], bytes[3]) \o Base64(SubSeq(bytes, 4, Len(bytes)))

\* s.substring(0, end)
Substring(s, end) == SubSeq(s, 1, IF Len(s) < end THEN Len(s) ELSE end)

\* s.split(ch): the pieces between the occurrences of the character
RECURSIVE Split(_, _)
Split(s, ch) ==
    IF IndexOf(s, ch) = 0 THEN <<s>>
    ELSE <<SubSeq(s, 1, IndexOf(s, ch) - 1)>>
             \o Split(SubSeq(s, IndexOf(s, ch) + 1, Len(s)), ch)

DigitValue ==
    ("0" :> 0) @@ ("1" :> 1) @@ ("2" :> 2) @@ ("3" :> 3) @@ ("4" :> 4) @@
    ("5" :> 5) @@ ("6" :> 6) @@ ("7" :> 7) @@ ("8" :> 8) @@ ("9" :> 9)

HexValue ==
    DigitValue @@
    ("a" :> 10) @@ ("b" :> 11) @@ ("c" :> 12) @@ ("d" :> 13) @@ ("e" :> 14) @@ ("f" :> 15)

IsDigits(s) == s # <<>> /\ \A i \in 1..Len(s) : s[i] \in DOMAIN DigitValue

\* the number a tuple of digits of the given base writes
RECURSIVE Number(_, _, _)
Number(s, values, base) ==
    IF s = <<>> THEN 0
    ELSE Number(SubSeq(s, 1, Len(s) - 1), values, base) * base + values[s[Len(s)]]

ApiPrefix == <<"/","a","p","i">>

IsApiPath(path) == StartsWith(path, ApiPrefix)

honeypotPaths == {
    <<"/","w","p","-","a","d","m","i","n">>,
    <<"/","w","p","-","l","o","g","i","n",".","p","h","p">>,
    <<"/","w","p","-","c","o","n","f","i","g",".","p","h","p">>,
    <<"/","x","m","l","r","p","c",".","p","h","p">>,
    <<"/","a","d","m","i","n">>,
    <<"/","a","d","m","i","n","i","s","t","r","a","t","o","r">>,
    <<"/","a","d","m","i","n",".","p","h","p">>,
    <<"/","p","h","p","m","y","a","d","m","i","n">>,
    <<"/",".","e","n","v">>,
    <<"/",".","e","n","v",".","p","r","o","d","u","c","t","i","o","n">>,
    <<"/",".","g","i","t","/","c","o","n","f","i","g">>,
    <<"/","c","o","n","f","i","g",".","p","h","p">>,
    <<"/","c","o","n","f","i","g","u","r","a","t","i","o","n",".","p","h","p">>,
    <<"/","a","p","i","/","s","w","a","g","g","e","r">>,
    <<"/","s","w","a","g","g","e","r">>,
    <<"/","s","w","a","g","g","e","r",".","j","s","o","n">>,
    <<"/","s","w","a","g","g","e","r",".","y","a","m","l">>,
    <<"/","s","w","a","g","g","e","r","/","v","1","/","s","w","a","g","g","e","r",".","j","s","o","n">>,
    <<"/","s","w","a","g","g","e","r","/","v","2","/","s","w","a","g","g","e","r",".","j","s","o","n">>,
    <<"/","a","p","i","-","d","o","c","s">>,
    <<"/","a","p","i","/","d","o","c","s">>,
    <<"/","d","o","c","s">>,
    <<"/","g","r","a","p","h","q","l">>,
    <<"/","a","p","i","/","g","r","a","p","h","q","l">>,
    <<"/","v","1","/","a","p","i","-","d","o","c","s">>,
    <<"/","v","2","/","a","p","i","-","d","o","c","s">>,
    <<"/","o","p","e","n","a","p","i",".","j","s","o","n">>,
    <<"/","a","p","i",".","j","s","o","n">>,
    <<"/","b","a","c","k","u","p">>,
    <<"/","b","a","c","k","u","p",".","s","q","l">>,
    <<"/","b","a","c","k","u","p",".","z","i","p">>,
    <<"/","d","a","t","a","b","a","s","e",".","s","q","l">>,
    <<"/",".","g","i","t">>,
    <<"/",".","s","v","n">>,
    <<"/",".","h","t","a","c","c","e","s","s">>,
    <<"/","w","e","b",".","c","o","n","f","i","g">>,
    <<"/","s","e","r","v","e","r","-","s","t","a","t","u","s">>,
    <<"/","s","e","r","v","e","r","-","i","n","f","o">>}

allowedMethods == {"GET", "POST", "PUT", "PATCH", "DELETE", "HEAD", "OPTIONS"}

traversalPatterns == {
    <<".",".","/">>,
    <<".",".","\\">>,
    <<"%","2","e","%","2","e">>,
    <<"%","2","5","2","e">>,
    <<"%","c","0","%","a","e">>,
    <<"%","c","1","%","9","c">> }

PathRoot == <<"/">>
PathWpAdmin == <<"/","w","p","-","a","d","m","i","n">>
PathSwagger == <<"/","a","p","i","/","s","w","a","g","g","e","r">>
PathAppeals == <<"/","a","p","i","/","a","p","p","e","a","l","s">>
PathUnblock == <<"/","a","p","i","/","s","e","c","u","r","i","t","y","/","u","n","b","l","o","c","k">>
PathBlockedIps == <<"/","a","p","i","/","s","e","c","u","r","i","t","y","/","b","l","o","c","k","e","d","-","i","p","s">>
PathStatus == <<"/","a","p","i","/","s","t","a","t","u","s">>

----------------------------------------------------------------------------
(* Maps *)

MapPut(m, k, v) == [x \in (DOMAIN m) \cup {k} |-> IF x = k THEN v ELSE m[x]]

MapDel(m, k) == [x \in (DOMAIN m) \ {k} |-> m[x]]

EmptyMap == [x \in {} |-> 0]

Min2(a, b) == IF a <= b THEN a ELSE b

\* Math.ceil(ms / 60000) for any integer ms (\div rounds toward minus infinity)
CeilMinutes(ms) == -((-ms) \div MsPerMinute)

\* the sequence without its i-th element
Without(s, i) == SubSeq(s, 1, i - 1) \o SubSeq(s, i + 1, Len(s))

----------------------------------------------------------------------------
(* Requests *)

\* a string-valued setting or body field that is not there
Undef == "<undefined>"

\* a header or a body field, held as a tuple of characters, that is not there
Absent == <<"<","a","b","s","e","n","t",">">>

AdminSecret == "s3cret"

WrongKey == "guess"

CaptchaSecret == "0x0"

\* JavaScript truthiness of a header value: present and not the empty string
Truthy(h) == h # Absent /\ h # <<>>

\* `value || ''`
OrEmpty(h) == IF Truthy(h) THEN h ELSE <<>>

\* a JSON value: a number or a string with its text (a string may go on with
\* a run of fill letters), an object of keyed values, or an array of values
Scalar(str, text, fill) ==
    [leaf |-> TRUE, arr |-> FALSE, str |-> str, keys |-> <<>>, kids |-> <<>>,
     text |-> text, fill |-> fill]

\* the number 1
Leaf == Scalar(FALSE, <<"1">>, 0)

\* the number 2
Two == Scalar(FALSE, <<"2">>, 0)

Str(s) == Scalar(TRUE, s, 0)

\* the string of n letters
Letters(n) == Scalar(TRUE, <<>>, n)

\* an object with the keys as the client wrote them, no key twice
Object(keys, kids) ==
    [leaf |-> FALSE, arr |-> FALSE, str |-> FALSE, keys |-> keys, kids |-> kids,
     text |-> <<>>, fill |-> 0]

Arr(kids) ==
    [leaf |-> FALSE, arr |-> TRUE, str |-> FALSE, keys |-> <<>>, kids |-> kids,
     text |-> <<>>, fill |-> 0]

KeyLetters == <<"a", "b", "c", "d">>

\* the object whose i-th property is named by the i-th letter
Obj(kids) == Object([i \in 1..Len(kids) |-> <<KeyLetters[i]>>], kids)

\* the characters JSON.stringify writes for a character of a string: the
\* quote, the backslash and the control characters are escaped (of those the
\* model has tab, line feed, form feed and carriage return), every other
\* character of the model is written as it is
Escaped(ch) ==
    CASE ch = "\"" -> <<"\\", "\"">>
      [] ch = "\\" -> <<"\\", "\\">>
      [] ch = "\n" -> <<"\\", "n">>
      [] ch = "\r" -> <<"\\", "r">>
      [] ch = "\t" -> <<"\\", "t">>
      [] ch = "\f" -> <<"\\", "f">>
      [] OTHER   -> <<ch>>

RECURSIVE Quoted(_)
Quoted(s) == IF s = <<>> THEN <<>> ELSE Escaped(Head(s)) \o Quoted(Tail(s))

\* the largest array index, 2^32 - 2
MaxArrayIndex == <<"4","2","9","4","9","6","7","2","9","4">>

\* a before b, for two numbers written in decimal without leading zeros
RECURSIVE DecimalLess(_, _)
DecimalLess(a, b) ==
    IF Len(a) # Len(b) THEN Len(a) < Len(b)
    ELSE IF a = <<>> THEN FALSE
    ELSE IF Head(a) # Head(b) THEN DigitValue[Head(a)] < DigitValue[Head(b)]
    ELSE DecimalLess(Tail(a), Tail(b))

\* the key is an array index: a whole number up to 2^32 - 2 written in
\* decimal without leading zeros
IsArrayIndex(key) ==
    /\ IsDigits(key)
    /\ (Len(key) = 1 \/ key[1] # "0")
    /\ ~DecimalLess(MaxArrayIndex, key)

\* the order in which an object of the language gives its own properties:
\* the array indices in ascending order, then the other keys in the order
\* they were created; the result lists the positions of the keys
RECURSIVE Ascending(_, _)
Ascending(keys, at) ==
    IF at = {} THEN <<>>
    ELSE LET i == CHOOSE x \in at : \A y \in at : ~DecimalLess(keys[y], keys[x])
         IN  <<i>> \o Ascending(keys, at \ {i})

OwnPropertyKeys(keys) ==
    Ascending(keys, {i \in 1..Len(keys) : IsArrayIndex(keys[i])})
        \o SelectSeq([i \in 1..Len(keys) |-> i], LAMBDA i : ~IsArrayIndex(keys[i]))

\* JSON.stringify(value): the properties of an object in the order of the
\* language
RECURSIVE JSONStringify(_)
JSONStringify(v) ==
    LET at == IF v.leaf \/ v.arr THEN [i \in 1..Len(v.kids) |-> i]
              ELSE OwnPropertyKeys(v.keys)
        Item(i) ==
            (IF v.arr THEN <<>> ELSE <<"\"">> \o Quoted(v.keys[at[i]]) \o <<"\"", ":">>)
                \o JSONStringify(v.kids[at[i]])
        Joined[i \in 0..Len(v.kids)] ==
            IF i = 0 THEN <<>>
            ELSE Joined[i - 1] \o (IF i > 1 THEN <<",">> ELSE <<>>) \o Item(i)
    IN  IF v.leaf
        THEN IF v.str
             THEN <<"\"">> \o Quoted(v.text) \o [i \in 1..v.fill |-> "x"] \o <<"\"">>
             ELSE v.text
        ELSE IF v.arr THEN <<"[">> \o Joined[Len(v.kids)] \o <<"]">>
        ELSE <<"{">> \o Joined[Len(v.kids)] \o <<"}">>

\* express-mongo-sanitize: a key that begins with $ or holds a dot
Prohibited(key) ==
    \/ (key # <<>> /\ key[1] = "$")
    \/ \E i \in 1..Len(key) : key[i] = "."

\* express-mongo-sanitize on a value: the properties with such a key are
\* deleted, at every depth
RECURSIVE Sanitized(_)
Sanitized(v) ==
    LET kept == SelectSeq([i \in 1..Len(v.kids) |-> i],
                          LAMBDA i : v.arr \/ ~Prohibited(v.keys[i]))
    IN  IF v.leaf THEN v
        ELSE [v EXCEPT !.keys = IF v.arr THEN <<>>
                                ELSE [j \in 1..Len(kept) |-> v.keys[kept[j]]],
                       !.kids = [j \in 1..Len(kept) |-> Sanitized(v.kids[kept[j]])]]

\* hpp on an object: of a property that is an array the last value stays
LastValues(v) ==
    IF v.leaf \/ v.arr THEN v
    ELSE [v EXCEPT !.kids = [i \in 1..Len(v.kids) |->
                                IF v.kids[i].arr /\ v.kids[i].kids # <<>>
                                THEN v.kids[i].kids[Len(v.kids[i].kids)]
                                ELSE v.kids[i]]]

\* what express.urlencoded (extended: false) makes of a value of a form: a
\* string, or an array of strings when the name is given more than once
FormValue(v) ==
    LET Text(w) == IF w.leaf THEN Scalar(TRUE, w.text, w.fill) ELSE Str(<<>>)
    IN  IF v.arr THEN Arr([i \in 1..Len(v.kids) |-> Text(v.kids[i])]) ELSE Text(v)

\* the fields of an appeal: the Discord id, whether a denial date and a captcha
\* token are given, and the length of the reason
NoAppeal == [userId |-> Absent, denialDate |-> FALSE, reasonLen |-> 0, captchaToken |-> FALSE]

\* req.body = {}: what the body parsers leave when they parse nothing
NoBody == [ip |-> Absent, adminKey |-> Undef, appeal |-> NoAppeal, json |-> Obj(<<>>)]

UA1 == <<"M","o","z">>

UA2 == <<"c","u","r","l">>

TypeJson == <<"a","p","p","l","i","c","a","t","i","o","n","/","j","s","o","n">>

TypeForm == <<"a","p","p","l","i","c","a","t","i","o","n","/","x","-","w","w","w","-","f","o","r","m","-","u","r","l","e","n","c","o","d","e","d">>

TypeText == <<"t","e","x","t","/","p","l","a","i","n">>

\* content-length is a number, NoLength when the header is not there
NoLength == -1

BodyBytes == 64

\* x-forwarded-for as a proxy writes it: the addresses joined by commas, each
\* with or without a blank before it
Entry(ip, pad) == IF pad THEN <<" ">> \o ip ELSE ip

RECURSIVE Xff(_)
Xff(entries) ==
    IF Len(entries) = 1 THEN entries[1]
    ELSE entries[1] \o <<",">> \o Xff(Tail(entries))

\* mutant: the last entry of the chain, the proxy nearest the server
FirstForwarded_Last(x) == Trim(Split(x, ",")[Len(Split(x, ","))])

\* forwarded.split(',')[0].trim()
FirstForwarded(x) == Trim(Split(x, ",")[1])

\* a request with the headers a browser sends; one with a body declares it as
\* JSON with its length
Req(remote, method, path, ua, body) ==
    [remote |-> remote, cf |-> Absent, xff |-> Absent,
     method |-> method, path |-> path,
     ua |-> ua, al |-> <<"e","n">>, ae |-> <<"g","z">>, accept |-> <<"*">>,
     other |-> Absent,
     ctype |-> IF body = NoBody THEN Absent ELSE TypeJson,
     clen |-> IF body = NoBody THEN NoLength ELSE BodyBytes,
     sql |-> FALSE, xss |-> FALSE,
     body |-> body]

CLOUDFLARE_IPV4_RANGES == {
    <<"1","7","3",".","2","4","5",".","4","8",".","0","/","2","0">>,
    <<"1","0","3",".","2","1",".","2","4","4",".","0","/","2","2">>,
    <<"1","0","3",".","2","2",".","2","0","0",".","0","/","2","2">>,
    <<"1","0","3",".","3","1",".","4",".","0","/","2","2">>,
    <<"1","4","1",".","1","0","1",".","6","4",".","0","/","1","8">>,
    <<"1","0","8",".","1","6","2",".","1","9","2",".","0","/","1","8">>,
    <<"1","9","0",".","9","3",".","2","4","0",".","0","/","2","0">>,
    <<"1","8","8",".","1","1","4",".","9","6",".","0","/","2","0">>,
    <<"1","9","7",".","2","3","4",".","2","4","0",".","0","/","2","2">>,
    <<"1","9","8",".","4","1",".","1","2","8",".","0","/","1","7">>,
    <<"1","6","2",".","1","5","8",".","0",".","0","/","1","5">>,
    <<"1","0","4",".","1","6",".","0",".","0","/","1","3">>,
    <<"1","0","4",".","2","4",".","0",".","0","/","1","4">>,
    <<"1","7","2",".","6","4",".","0",".","0","/","1","3">>,
    <<"1","3","1",".","0",".","7","2",".","0","/","2","2">> }

CLOUDFLARE_IPV6_RANGES == {
    <<"2","6","0","6",":","4","7","0","0",":",":","/","3","2">>,
    <<"2","8","0","3",":","f","8","0","0",":",":","/","3","2">>,
    <<"2","4","0","5",":","b","5","0","0",":",":","/","3","2">>,
    <<"2","4","0","5",":","8","1","0","0",":",":","/","3","2">>,
    <<"2","a","0","6",":","9","8","c","0",":",":","/","2","9">>,
    <<"2","c","0","f",":","f","2","4","8",":",":","/","3","2">> }

\* the four numbers of a dotted quad in decimal without leading zeros, <<>>
\* for any other text
ParseIPv4(s) ==
    LET Quad(parts) ==
            IF /\ Len(parts) = 4
               /\ \A i \in 1..4 :
                     /\ IsDigits(parts[i])
                     /\ Len(parts[i]) <= 3
                     /\ (Len(parts[i]) > 1 => parts[i][1] # "0")
                     /\ Number(parts[i], DigitValue, 10) <= 255
            THEN [i \in 1..4 |-> Number(parts[i], DigitValue, 10)]
            ELSE <<>>
    IN  Quad(Split(s, "."))

\* the index at which "::" begins, 0 when the text has none
DoubleColon(s) ==
    LET First(at) == IF at = {} THEN 0 ELSE CHOOSE i \in at : \A j \in at : i <= j
    IN  First({i \in 1..(Len(s) - 1) : s[i] = ":" /\ s[i + 1] = ":"})

Groups(s) == IF s = <<>> THEN <<>> ELSE Split(s, ":")

IsHextet(s) == Len(s) \in 1..4 /\ \A i \in 1..Len(s) : s[i] \in DOMAIN HexValue

\* the eight numbers of an IPv6 address in hexadecimal groups, "::" standing
\* for the groups left out (one at least); <<>> for any other text
ParseIPv6(s0) ==
    LET Hextets(parts) ==
            IF Len(parts) = 8 /\ \A i \in 1..8 : IsHextet(parts[i])
            THEN [i \in 1..8 |-> Number(parts[i], HexValue, 16)]
            ELSE <<>>
        Filled(left, right) ==
            IF Len(left) + Len(right) > 7 THEN <<>>
            ELSE left \o [i \in 1..(8 - Len(left) - Len(right)) |-> <<"0">>] \o right
        From(s, k) ==
            Hextets(IF k = 0 THEN Groups(s)
                    ELSE Filled(Groups(SubSeq(s, 1, k - 1)),
                                Groups(SubSeq(s, k + 2, Len(s)))))
    IN  From(ToLowerCase(s0), DoubleColon(s0))

MappedPrefix == <<":",":","f","f","f","f",":">>

\* ipaddr.process: the address as numbers, an IPv4-mapped IPv6 address
\* (::ffff:a.b.c.d) taken as the IPv4 address it maps
ProcessAddress(ip) ==
    LET Mapped(quad) ==
            IF quad # <<>> THEN quad
            ELSE IF IndexOf(ip, ":") = 0 THEN ParseIPv4(ip)
            ELSE IF IndexOf(ip, ".") = 0 THEN ParseIPv6(ip)
            ELSE <<>>
    IN  Mapped(IF StartsWith(ToLowerCase(ip), MappedPrefix)
               THEN ParseIPv4(SubSeq(ip, Len(MappedPrefix) + 1, Len(ip)))
               ELSE <<>>)

\* ipaddr.parseCIDR: the base address and the number of leading bits
ParseCIDR(cidr) ==
    LET Range(parts) ==
            [base |-> ProcessAddress(parts[1]), bits |-> Number(parts[2], DigitValue, 10)]
    IN  Range(Split(cidr, "/"))

\* the addresses agree in their leading bits; width is the bits of one number
PrefixMatch(a, b, bits, width) ==
    \A i \in 1..Len(a) :
        LET lo == (i - 1) * width
        IN  IF bits >= lo + width THEN a[i] = b[i]
            ELSE IF bits <= lo THEN TRUE
            ELSE a[i] \div (2 ^ (lo + width - bits)) = b[i] \div (2 ^ (lo + width - bits))

\* the two lists of ranges as ipaddr.parseCIDR reads them
CloudflareNetworks ==
    [list \in {"ipv4", "ipv6"} |->
        {ParseCIDR(r) : r \in IF list = "ipv4" THEN CLOUDFLARE_IPV4_RANGES
                               ELSE CLOUDFLARE_IPV6_RANGES}]

InNetworks(addr, networks) ==
    /\ addr # <<>>
    /\ \E range \in networks :
          /\ Len(range.base) = Len(addr)
          /\ PrefixMatch(addr, range.base, range.bits, IF Len(addr) = 4 THEN 8 ELSE 16)

\* ipRangeCheck(ip, ranges): the text is an address of the kind of the ranges
\* and lies in one of them; an address it cannot read lies in none
ipRangeCheck(ip, networks) == InNetworks(ProcessAddress(ip), networks)

LocalAddresses == {
    <<"1","2","7",".","0",".","0",".","1">>,
    <<"l","o","c","a","l","h","o","s","t">>,
    <<":",":","1">>,
    <<":",":","f","f","f","f",":","1","2","7",".","0",".","0",".","1">> }

\* the addresses of the scenarios: three clients, the machine itself and two
\* addresses of the Cloudflare ranges
Attacker == <<"2","0","3",".","0",".","1","1","3",".","5">>

Admin == <<"1","9","8",".","5","1",".","1","0","0",".","7">>

Victim == <<"1","9","2",".","0",".","2",".","4","4">>

Proxy == <<"1","2","7",".","0",".","0",".","1">>

Edge == <<"1","7","2",".","6","4",".","0",".","1">>

Edge6 == <<"2","6","0","6",":","4","7","0","0",":",":","1">>

ScenarioPeers == {Attacker, Admin, Victim, Proxy, Edge, Edge6}

\* the four literals, then the IPv4 ranges for a text with a ".", the IPv6
\* ranges for a text with a ":"
CloudflareCheck(ip) ==
    IF ip \in LocalAddresses THEN TRUE
    ELSE IF IndexOf(ip, ".") = 0 /\ IndexOf(ip, ":") = 0 THEN FALSE
    ELSE ipRangeCheck(ip, CloudflareNetworks[IF IndexOf(ip, ".") # 0 THEN "ipv4" ELSE "ipv6"])

\* the verdicts on the peers of the scenarios, computed once
TrustedPeers == {ip \in ScenarioPeers : CloudflareCheck(ip)}

isCloudflareIP(ip) ==
    IF ip \in ScenarioPeers THEN ip \in TrustedPeers ELSE CloudflareCheck(ip)

Unknown == <<"u","n","k","n","o","w","n">>

\* `req.socket.remoteAddress || 'unknown'`: the peer address of the socket,
\* "unknown" for a socket that has none
RemoteIp(req) == IF Truthy(req.remote) THEN req.remote ELSE Unknown

\* mutant: the forwarded headers are used without looking at the peer
getClientIp_TrustsHeaders(req) ==
    IF Truthy(req.cf) THEN req.cf
    ELSE IF Truthy(req.xff) THEN FirstForwarded(req.xff)
    ELSE RemoteIp(req)

getClientIp(req) ==
    IF isCloudflareIP(RemoteIp(req))
    THEN IF Truthy(req.cf) THEN req.cf
         ELSE IF Truthy(req.xff) THEN FirstForwarded(req.xff)
         ELSE RemoteIp(req)
    ELSE RemoteIp(req)

Bar == <<"|">>

\* the bytes that the first FingerprintLen characters of a base64 text encode
FingerprintBytes == (FingerprintLen \div 4) * 3

\* Buffer.from(components.join('|')).toString('base64').substring(0, 32)
generateRequestFingerprint(req) ==
    Substring(Base64(Utf8(OrEmpty(req.ua) \o Bar \o OrEmpty(req.al) \o Bar
                              \o OrEmpty(req.ae) \o Bar \o OrEmpty(req.accept))),
              FingerprintLen)

DepthGuard == 20

RECURSIVE getObjectDepth(_, _)
getObjectDepth(obj, depth) ==
    IF obj.leaf \/ depth > DepthGuard
    THEN depth
    ELSE IF Len(obj.kids) = 0 THEN depth
    ELSE LET ds == {getObjectDepth(obj.kids[i], depth + 1) : i \in 1..Len(obj.kids)}
         IN  CHOOSE d \in ds : \A e \in ds : e <= d

----------------------------------------------------------------------------
(* The ban store *)

\* redis.setex(key, minutes * 60, expiry): the value is the expiry computed
\* when blockIPRedis was called, the TTL of minutes * 60 seconds runs from the
\* moment Redis takes the command
blockIPRedis(rds, ip, durationMinutes, expiry) ==
    MapPut(rds, ip, [val |-> expiry, until |-> now + durationMinutes * 60 * 1000])

blockIPMemory(blk, ip, durationMinutes) ==
    MapPut(blk, ip, now + durationMinutes * MsPerMinute)

\* redis.get(key): null (0) once the TTL has run out
RedisGet(rds, ip) ==
    IF ip \in DOMAIN rds /\ now < rds[ip].until THEN rds[ip].val ELSE 0

\* redis.del(key): the number of keys removed
RedisDel(rds, ip) == IF RedisGet(rds, ip) # 0 THEN 1 ELSE 0

Undefined == <<"u","n","d","e","f","i","n","e","d">>

\* `blocked:${ip}`: unblockIP is called with req.body.ip, and the key of an
\* address the body does not give is that of the address "undefined"
RedisKey(ip) == IF ip = Absent THEN Undefined ELSE ip

\* What a handler waits for: the reply to a Redis command (get, setex, del)
\* on the key of an address (ip), sent for the address the caller gave (arg);
\* the body of its request; a timer; the answer of the captcha service and
\* the JSON value read from it; or its turn among the microtasks, when what it
\* awaits is settled already.
NoOp == [kind |-> "none", ip |-> Absent, arg |-> Absent, min |-> 0, val |-> 0]

GetOp(ip) == [kind |-> "get", ip |-> RedisKey(ip), arg |-> ip, min |-> 0, val |-> 0]

SetexOp(ip, durationMinutes, expiry) ==
    [kind |-> "setex", ip |-> RedisKey(ip), arg |-> ip, min |-> durationMinutes,
     val |-> expiry]

DelOp(ip) == [kind |-> "del", ip |-> RedisKey(ip), arg |-> ip, min |-> 0, val |-> 0]

BodyOp == [kind |-> "body", ip |-> Absent, arg |-> Absent, min |-> 0, val |-> 0]

TimerOp(due) == [kind |-> "timer", ip |-> Absent, arg |-> Absent, min |-> 0, val |-> due]

FetchOp == [kind |-> "fetch", ip |-> Absent, arg |-> Absent, min |-> 0, val |-> 0]

JsonOp == [kind |-> "json", ip |-> Absent, arg |-> Absent, min |-> 0, val |-> 0]

TickOp == [kind |-> "tick", ip |-> Absent, arg |-> Absent, min |-> 0, val |-> 0]

\* the socket of a request that was answered before it had been received
\* completely: the connection is kept alive, the request is still the one the
\* parser of the socket is reading, and the callback of requestTimeout still
\* listens for its 'timeout' event
SocketOp == [kind |-> "socket", ip |-> Absent, arg |-> Absent, min |-> 0, val |-> 0]

RedisKinds == {"get", "setex", "del"}

\* the operations that hand back a promise; the parser and the timers call
\* back
PromiseKinds == RedisKinds \cup {"fetch", "json"}

\* What a request carries from one middleware to the next and across its
\* waits: the middlewares that have run (ran) and the one running (pc), the
\* await it is at (phase), the blockIP calls made (calls) and returned (bans),
\* the unblockIP calls made, the maps it has written (touched), req.body as
\* the parsers left it, whether the request has been received completely,
\* the instant requestTimeout set the timeout of the socket (armed) and the
\* instant the socket was last active, or its timeout last set, since (idle),
\* whether a response has gone out on the socket (answered) or the socket has
\* been destroyed (closed), the response once a handler has decided it, and
\* how many of its Redis calls have thrown (faults).
NewLocal ==
    [id |-> 0, since |-> 0, ran |-> <<>>, pc |-> 0, phase |-> "start",
     calls |-> <<>>, bans |-> <<>>, unbans |-> <<>>, touched |-> {},
     body |-> NoBody, complete |-> TRUE, armed |-> -1, idle |-> -1,
     answered |-> FALSE, closed |-> FALSE,
     flag |-> FALSE, done |-> FALSE, status |-> 0, retry |-> -1, by |-> "none",
     success |-> FALSE, counted |-> FALSE, faults |-> 0]

\* The context of a run of handler code between two waits: the maps of the
\* process and Redis as the code finds and leaves them, what the request
\* carries, the operation that has settled with its outcome (threw, reply)
\* and the microtask turn since (hop), the operation the handler waits for
\* next (wait), whether that is the operation it was waiting for, one async
\* function further up (again), and the calls it has made without awaiting
\* them (ops).
Ctx(loc, op, threw, reply) ==
    [blk |-> blocked, trk |-> tracking, pat |-> patterns, rds |-> redisStore,
     lim |-> limits,
     loc |-> loc, op |-> op, threw |-> threw, reply |-> reply, hop |-> 0,
     wait |-> NoOp, again |-> FALSE, ops |-> <<>>, late |-> FALSE]

Waiting(c) == c.wait # NoOp

Await(c, op, phase) == [c EXCEPT !.wait = op, !.loc.phase = phase]

Resumed(c) == [c EXCEPT !.loc.phase = "start"]

\* a call that is not awaited: the operation goes on by itself, and nothing
\* is left of a call that has run to its end
Detach(c) ==
    IF Waiting(c)
    THEN [c EXCEPT !.ops = IF c.wait = TickOp THEN @ ELSE Append(@, c.wait),
                   !.wait = NoOp, !.loc.phase = "start"]
    ELSE c

Ran(c, name) == [c EXCEPT !.loc.ran = Append(@, name)]

\* res.status(status).json(...): fails when the response has gone out already
Reject(c, status, by) ==
    [c EXCEPT !.loc.done = TRUE, !.loc.status = status, !.loc.by = by]

\* the call is noted in calls when it is made and in bans when it returns,
\* with the store that took the record and the instant its expiry was
\* computed at
NoteCall(c, ip, durationMinutes) ==
    [c EXCEPT !.loc.calls = Append(@, [ip |-> ip, min |-> durationMinutes, at |-> now])]

NoteBan(c, ip, durationMinutes, at, store) ==
    [c EXCEPT !.loc.bans = Append(@, [ip |-> ip, min |-> durationMinutes,
                                      at |-> at, store |-> store])]

\* the instant blockIPRedis was called, from the expiry it computed
CalledAt(op) == op.val - op.min * MsPerMinute

\* mutant: a failed Redis write is not made up for in the map
blockIPReturns_NoFallback(c) ==
    IF ~c.threw
    THEN NoteBan(c, c.op.ip, c.op.min, CalledAt(c.op), "redis")
    ELSE c

\* blockIP from the return of blockIPRedis on: Redis has taken the record, or
\* the call threw and the record goes to the map
blockIPReturns(c) ==
    IF ~c.threw
    THEN NoteBan(c, c.op.ip, c.op.min, CalledAt(c.op), "redis")
    ELSE [NoteBan(c, c.op.arg, c.op.min, now, "memory") EXCEPT
              !.blk = blockIPMemory(@, c.op.arg, c.op.min)]

\* blockIP up to the point it hands control back: with a Redis client the
\* expiry is computed and redis.setex sent; without one the record is in the
\* map, and the promise blockIP returns is settled: a caller that awaits it
\* goes on in a later microtask
blockIP(c, ip, durationMinutes) ==
    IF redisOn
    THEN Await(NoteCall(c, ip, durationMinutes),
               SetexOp(ip, durationMinutes, now + durationMinutes * MsPerMinute),
               "blockIP")
    ELSE Await([NoteBan(NoteCall(c, ip, durationMinutes), ip, durationMinutes,
                        now, "memory")
                   EXCEPT !.blk = blockIPMemory(@, ip, durationMinutes)],
               TickOp, "blockIP")

\* isIPBlockedRedis from the reply of redis.get on: the catch block looks
\* into the map as it is when the function goes on
isIPBlockedRedis(c, ip) ==
    IF ~c.threw
    THEN [c EXCEPT !.loc.flag = (c.reply # 0)]
    ELSE [c EXCEPT !.loc.flag = (ip \in DOMAIN c.blk)]

MemoryExpired(expiry) == now > expiry

isIPBlockedMemory(c, ip) ==
    IF ip \notin DOMAIN c.blk \/ c.blk[ip] = 0
    THEN [c EXCEPT !.loc.flag = FALSE]
    ELSE IF MemoryExpired(c.blk[ip])
         THEN [c EXCEPT !.blk = MapDel(@, ip), !.loc.flag = FALSE]
         ELSE [c EXCEPT !.loc.flag = TRUE]

\* `await isIPBlocked(ip)`: with a Redis client the check waits for redis.get
\* and isIPBlockedRedis forms the verdict from its reply; without one it
\* looks into the map when it is called; its caller has the verdict in a
\* later microtask
isIPBlocked(c, ip) ==
    IF c.loc.phase = "isIPBlocked" THEN Resumed(c)
    ELSE IF redisOn THEN Await(c, GetOp(ip), "isIPBlocked")
    ELSE Await(isIPBlockedMemory(c, ip), TickOp, "isIPBlocked")

RemainingMinutes(expiry) ==
    IF expiry # 0 THEN CeilMinutes(expiry - now) ELSE 0

Forbid(c, remainingMinutes) ==
    [Reject(c, 403, "gate") EXCEPT !.loc.retry = remainingMinutes]

\* the gate waits for the verdict of isIPBlocked and, with a Redis client and
\* the origin banned, for the expiry it reads again; without a Redis client
\* it reads the expiry from the map as the map is when it goes on
ipBlockingMiddleware(c0, req) ==
    LET Gate(c, ip) ==
            IF Waiting(c) THEN c
            ELSE IF c0.loc.phase = "expiry"
            THEN Forbid(c, IF c0.threw THEN 0 ELSE RemainingMinutes(c0.reply))
            ELSE IF c.loc.flag
            THEN IF redisOn
                 THEN Await(c, GetOp(ip), "expiry")
                 ELSE Forbid(c, RemainingMinutes(IF ip \in DOMAIN c.blk THEN c.blk[ip] ELSE 0))
            ELSE c
        Checked(ip) ==
            Gate(IF c0.loc.phase = "expiry" THEN Resumed(c0)
                 ELSE isIPBlocked(IF c0.loc.phase = "start" THEN Ran(c0, "gate") ELSE c0, ip),
                 ip)
    IN  Checked(getClientIp(req))

\* unblockIP from the reply of redis.del on: a key was removed, or none was
\* (or the call threw) and the map is tried
unblockIPReturns(c) ==
    IF ~c.threw /\ c.reply > 0
    THEN [Resumed(c) EXCEPT !.loc.flag = TRUE]
    ELSE IF c.op.arg \in DOMAIN c.blk
         THEN [Resumed(c) EXCEPT !.blk = MapDel(@, c.op.arg), !.loc.flag = TRUE]
         ELSE [Resumed(c) EXCEPT !.loc.flag = FALSE]

\* unblockIP up to the point it hands control back: with a Redis client
\* redis.del is sent for the key of the address; without one the map has
\* been tried and the promise unblockIP returns is settled
unblockIP(c0, ip) ==
    LET c == [c0 EXCEPT !.loc.unbans = Append(@, IF redisOn THEN RedisKey(ip) ELSE ip)]
    IN  IF redisOn THEN Await(c, DelOp(ip), "unblockIP")
        ELSE Await(IF ip \in DOMAIN c.blk
                   THEN [c EXCEPT !.blk = MapDel(@, ip), !.loc.flag = TRUE]
                   ELSE [c EXCEPT !.loc.flag = FALSE],
                   TickOp, "unblockIP")

\* The list of bans the monitoring route returns: the in-memory records that
\* have not run out when no Redis client is configured, nothing otherwise.
getBlockedIPs ==
    IF ~redisOn
    THEN {[ip |-> k, expiresAt |-> blocked[k], reason |-> "Security violation"] :
            k \in {x \in DOMAIN blocked : blocked[x] > now}}
    ELSE {}

----------------------------------------------------------------------------
(* The middlewares, in the order index.ts registers them *)

trustCloudflareProxy(c0, req) ==
    LET c == Ran(c0, "trust")
    IN  IF ~isCloudflareIP(RemoteIp(req)) /\ (Truthy(req.cf) \/ Truthy(req.xff))
        THEN Reject(c, 403, "trust")
        ELSE c

\* mutant: the 405 without the ban
httpMethodValidation_NoBan(c0, req) ==
    LET c == Ran(c0, "method")
    IN  IF req.method \notin allowedMethods
        THEN Reject(c, 405, "method")
        ELSE c

httpMethodValidation(c0, req) ==
    LET c == Ran(c0, "method")
    IN  IF req.method \notin allowedMethods
        THEN Reject(blockIP(c, getClientIp(req), MethodMinutes), 405, "method")
        ELSE c

pathTraversalDetection(c0, req) ==
    LET c == Ran(c0, "traversal")
    IN  IF \E pat \in traversalPatterns : Includes(ToLowerCase(req.path), pat)
        THEN Reject(blockIP(c, getClientIp(req), TraversalMinutes), 400, "traversal")
        ELSE c

PayloadMaxBytes == 10240

PayloadMaxDepth == 10

\* the media type of a content-type value: what stands before the first ";",
\* without blanks, in lower case
MediaType(ctype) == ToLowerCase(Trim(Split(ctype, ";")[1]))

\* the types express.json and express.urlencoded parse
ParsedTypes == {TypeJson, TypeForm}

\* a parser takes the request: it has a body (a content-length) of its type
Parses(req) ==
    /\ req.clen # NoLength
    /\ req.ctype # Absent
    /\ MediaType(req.ctype) \in ParsedTypes

\* what the parser makes of the body: the JSON value itself, or, of a form
\* (extended: false), an object of strings and arrays of strings
ParseBody(req) ==
    IF MediaType(req.ctype) = TypeJson THEN req.body
    ELSE [req.body EXCEPT
              !.json = Object(@.keys, [i \in 1..Len(@.kids) |-> FormValue(@.kids[i])])]

\* req.body once the parsers have run
BodyOf(req) == IF Parses(req) THEN ParseBody(req) ELSE NoBody

\* hpp looks at the body of a request that declares a form
IsForm(req) ==
    /\ req.clen # NoLength
    /\ req.ctype # Absent
    /\ MediaType(req.ctype) = TypeForm

\* req.body once mongoSanitize and hpp have run
CleanBody(req) ==
    LET Clean(body) ==
            [body EXCEPT !.json = IF IsForm(req) THEN LastValues(Sanitized(@))
                                  ELSE Sanitized(@)]
    IN  Clean(BodyOf(req))

\* the request declares a body
HasBody(req) == req.clen # NoLength /\ req.clen > 0

\* express.json and express.urlencoded, limit 10kb: a request without a body
\* of their types passes with req.body = {}; a declared length over the limit
\* is refused with 413 by the error handler; otherwise the parser waits for
\* the body to arrive, and has read the request to its end when it goes on
bodyParsers(c0, req) ==
    IF c0.loc.phase = "body"
    THEN [Resumed(c0) EXCEPT !.loc.body = ParseBody(req), !.loc.complete = TRUE]
    ELSE LET c == Ran(c0, "parser")
         IN  IF ~Parses(req) THEN c
             ELSE IF req.clen > ParserLimitBytes THEN Reject(c, 413, "parser")
             ELSE Await(c, BodyOp, "body")

\* parseInt(req.headers['content-length'] || '0')
ContentLength(req) == IF req.clen = NoLength THEN 0 ELSE req.clen

\* mutant: `depth >= 10` in place of `depth > 10`
payloadBombProtection_AtLimit(c0, req) ==
    LET c == Ran(c0, "payload")
    IN  IF req.method \in {"POST", "PUT", "PATCH"}
        THEN IF ContentLength(req) > PayloadMaxBytes
             THEN Reject(blockIP(c, getClientIp(req), PayloadSizeMinutes), 413, "payload")
             ELSE IF getObjectDepth(c.loc.body.json, 0) >= PayloadMaxDepth
                  THEN Reject(blockIP(c, getClientIp(req), PayloadDepthMinutes), 400, "payload")
                  ELSE c
        ELSE c

payloadBombProtection(c0, req) ==
    LET c == Ran(c0, "payload")
    IN  IF req.method \in {"POST", "PUT", "PATCH"}
        THEN IF ContentLength(req) > PayloadMaxBytes
             THEN Reject(blockIP(c, getClientIp(req), PayloadSizeMinutes), 413, "payload")
             ELSE IF getObjectDepth(c.loc.body.json, 0) > PayloadMaxDepth
                  THEN Reject(blockIP(c, getClientIp(req), PayloadDepthMinutes), 400, "payload")
                  ELSE c
        ELSE c

\* mongoSanitize(): the properties of req.body whose key begins with $ or
\* holds a dot are deleted (the model's requests carry no query and no header
\* of such a name)
mongoSanitize(c0, req) ==
    [Ran(c0, "sanitize") EXCEPT !.loc.body.json = Sanitized(@)]

\* hpp(): of a parameter of a form given more than once the last value stays
\* in req.body (the model's requests carry no query)
hpp(c0, req) ==
    LET c == Ran(c0, "hpp")
    IN  IF IsForm(req) THEN [c EXCEPT !.loc.body.json = LastValues(@)] ELSE c

CR == "\r"

LF == "\n"

HasCRLF(v) == \E i \in 1..Len(v) : v[i] = CR \/ v[i] = LF

\* the values of the headers the request carries (content-length is digits)
HeaderValues(req) ==
    {req.ua, req.al, req.ae, req.accept, req.ctype, req.cf, req.xff, req.other} \ {Absent}

\* blockIP is called without await: with a Redis client the 400 goes out
\* while redis.setex is pending
headerValidation(c0, req) ==
    LET c == Ran(c0, "header")
    IN  IF ~IsApiPath(req.path) THEN c
        ELSE IF \E v \in HeaderValues(req) : HasCRLF(v)
             THEN Reject(Detach(blockIP(c, getClientIp(req), HeaderMinutes)), 400, "header")
             ELSE c

\* req.setTimeout(30000, callback): the callback listens for the 'timeout'
\* event of the request, the socket gets an idle timeout of 30000 ms that
\* runs from now, and the chain goes on
requestTimeout(c0, req) ==
    [Ran(c0, "timeout") EXCEPT !.loc.armed = now, !.loc.idle = now]

NewTracker == [count |-> 0, firstRequest |-> now, violations |-> 0, fingerprint |-> <<>>]

\* the tracker a handler mutates is the object the map holds, when it holds one:
\* a change made before an early return is kept for an origin already tracked
KeepIfTracked(trk, ip, t) == IF ip \in DOMAIN trk THEN MapPut(trk, ip, t) ELSE trk

FloodWindowOver(t) == now - t.firstRequest > FloodWindowMs

\* mutant: the count starts anew with every request
FloodReset_EveryRequest(t) == [t EXCEPT !.count = 0, !.firstRequest = now]

FloodReset(t) ==
    IF FloodWindowOver(t)
    THEN [t EXCEPT !.count = 0, !.firstRequest = now, !.violations = 0]
    ELSE t

\* mutant: violations * 30 without Math.min(..., 1440)
FloodBlockDuration_Uncapped(violations) == violations * FloodStepMinutes

FloodBlockDuration(violations) == Min2(violations * FloodStepMinutes, FloodCapMinutes)

\* mutant: `tracker.count >= 30` in place of `tracker.count > 30`
connectionFloodDetection_AtLimit(c0, req) ==
    LET Counted(c, ip, t2) ==
            IF t2.count >= FloodLimit
            THEN Reject(blockIP([c EXCEPT !.trk = KeepIfTracked(@, ip,
                                                    [t2 EXCEPT !.violations = @ + 1])],
                                ip, FloodBlockDuration(t2.violations + 1)),
                        429, "flood")
            ELSE [c EXCEPT !.trk = MapPut(@, ip, t2)]
        Tracked(c, ip) ==
            Counted(c, ip,
                    [FloodReset(IF ip \in DOMAIN c.trk THEN c.trk[ip] ELSE NewTracker)
                        EXCEPT !.count = @ + 1])
    IN  IF ~IsApiPath(req.path) THEN Ran(c0, "flood")
        ELSE Tracked(Ran(c0, "flood"), getClientIp(req))

connectionFloodDetection(c0, req) ==
    LET Counted(c, ip, t2) ==
            IF t2.count > FloodLimit
            THEN Reject(blockIP([c EXCEPT !.trk = KeepIfTracked(@, ip,
                                                    [t2 EXCEPT !.violations = @ + 1])],
                                ip, FloodBlockDuration(t2.violations + 1)),
                        429, "flood")
            ELSE [c EXCEPT !.trk = MapPut(@, ip, t2)]
        Tracked(c, ip) ==
            Counted(c, ip,
                    [FloodReset(IF ip \in DOMAIN c.trk THEN c.trk[ip] ELSE NewTracker)
                        EXCEPT !.count = @ + 1])
    IN  IF ~IsApiPath(req.path) THEN Ran(c0, "flood")
        ELSE Tracked(Ran(c0, "flood"), getClientIp(req))

\* the name of the method as the request line has it
MethodText(method) ==
    CASE method = "GET"     -> <<"G","E","T">>
      [] method = "POST"    -> <<"P","O","S","T">>
      [] method = "PUT"     -> <<"P","U","T">>
      [] method = "PATCH"   -> <<"P","A","T","C","H">>
      [] method = "DELETE"  -> <<"D","E","L","E","T","E">>
      [] method = "HEAD"    -> <<"H","E","A","D">>
      [] method = "OPTIONS" -> <<"O","P","T","I","O","N","S">>
      [] method = "TRACE"   -> <<"T","R","A","C","E">>

\* `${ip}:${req.method}:${req.path}:${JSON.stringify(req.body || {})}`
Signature(ip, method, path, body) ==
    ip \o <<":">> \o MethodText(method)
        \o <<":">> \o path \o <<":">> \o JSONStringify(body.json)

\* the key rapidRepeatDetection makes for the request
SignatureKey(req) == Signature(getClientIp(req), req.method, req.path, CleanBody(req))

PrunePatterns(pat) ==
    IF Cardinality(DOMAIN pat) > PatternsMax
    THEN [k \in {x \in DOMAIN pat : ~(pat[x] < now - PatternsCutoffMs)} |-> pat[k]]
    ELSE pat

\* mutant: the `startsWith('/api')` test is missing
rapidRepeatDetection_AllPaths(c0, req) ==
    LET Seen(c, ip, key, hit, t1) ==
            IF hit /\ t1.violations > RapidLimit
            THEN Reject(blockIP([c EXCEPT !.trk = KeepIfTracked(@, ip, t1)],
                                ip, RapidMinutes),
                        429, "rapid")
            ELSE [c EXCEPT !.trk = IF hit THEN MapPut(@, ip, t1) ELSE @,
                           !.pat = PrunePatterns(MapPut(@, key, now))]
        Looked(c, ip, key) ==
            Seen(c, ip, key,
                 now - (IF key \in DOMAIN c.pat THEN c.pat[key] ELSE 0) < RapidWindowMs,
                 [(IF ip \in DOMAIN c.trk THEN c.trk[ip] ELSE NewTracker)
                     EXCEPT !.violations = @ + 1])
    IN  Looked(Ran(c0, "rapid"), getClientIp(req),
               Signature(getClientIp(req), req.method, req.path, c0.loc.body))

rapidRepeatDetection(c0, req) ==
    LET Seen(c, ip, key, hit, t1) ==
            IF hit /\ t1.violations > RapidLimit
            THEN Reject(blockIP([c EXCEPT !.trk = KeepIfTracked(@, ip, t1)],
                                ip, RapidMinutes),
                        429, "rapid")
            ELSE [c EXCEPT !.trk = IF hit THEN MapPut(@, ip, t1) ELSE @,
                           !.pat = PrunePatterns(MapPut(@, key, now))]
        Looked(c, ip, key) ==
            Seen(c, ip, key,
                 now - (IF key \in DOMAIN c.pat THEN c.pat[key] ELSE 0) < RapidWindowMs,
                 [(IF ip \in DOMAIN c.trk THEN c.trk[ip] ELSE NewTracker)
                     EXCEPT !.violations = @ + 1])
    IN  IF ~IsApiPath(req.path) THEN Ran(c0, "rapid")
        ELSE Looked(Ran(c0, "rapid"), getClientIp(req),
               Signature(getClientIp(req), req.method, req.path, c0.loc.body))

fingerprintAnomalyDetection(c0, req) ==
    LET Compared(c, ip, fp, changed, t1) ==
            IF changed /\ t1.violations > FingerprintLimit
            THEN Reject(blockIP([c EXCEPT !.trk = MapPut(@, ip, t1)],
                                ip, FingerprintMinutes),
                        403, "fingerprint")
            ELSE [c EXCEPT !.trk = MapPut(@, ip, [t1 EXCEPT !.fingerprint = fp])]
        Changed(t0, fp) == t0.fingerprint # <<>> /\ t0.fingerprint # fp
        Tracked(c, ip, fp) ==
            IF ip \notin DOMAIN c.trk THEN c
            ELSE Compared(c, ip, fp, Changed(c.trk[ip], fp),
                          IF Changed(c.trk[ip], fp)
                          THEN [c.trk[ip] EXCEPT !.violations = @ + 1]
                          ELSE c.trk[ip])
    IN  IF ~IsApiPath(req.path) THEN Ran(c0, "fingerprint")
        ELSE Tracked(Ran(c0, "fingerprint"), getClientIp(req),
                     generateRequestFingerprint(req))

\* The stores of express-rate-limit: per key, the hits of the running window
\* and the instant the window ends.
NoLimits ==
    [slow |-> EmptyMap, rate |-> EmptyMap, appeals |-> EmptyMap,
     user |-> EmptyMap, failed |-> EmptyMap]

\* store.increment(key): a window that has run out starts anew
Increment(store, key, windowMs) ==
    LET cur == IF key \in DOMAIN store /\ now < store[key].reset
               THEN store[key]
               ELSE [hits |-> 0, reset |-> now + windowMs]
    IN  MapPut(store, key, [cur EXCEPT !.hits = @ + 1])

\* store.decrement(key)
Decrement(store, key) ==
    IF key \in DOMAIN store /\ store[key].hits > 0
    THEN MapPut(store, key, [store[key] EXCEPT !.hits = @ - 1])
    ELSE store

\* delayMs(hits) capped by maxDelayMs, for the hits beyond delayAfter
SlowDelay(hits) ==
    IF hits > SlowDelayAfter THEN Min2(hits * SlowStepMs, SlowMaxDelayMs) ELSE 0

\* express-slow-down: next() is called at once, or by a timer after the delay
speedLimiter(c0, req) ==
    IF c0.loc.phase = "delay" THEN Resumed(c0)
    ELSE LET Delayed(c, delay) ==
                 IF delay > 0 THEN Await(c, TimerOp(now + delay), "delay") ELSE c
             Counted(c, key, slow) ==
                 Delayed([c EXCEPT !.lim.slow = slow], SlowDelay(slow[key].hits))
             Keyed(c, key) == Counted(c, key, Increment(c.lim.slow, key, SlowWindowMs))
         IN  IF ~IsApiPath(req.path) THEN Ran(c0, "slow")
             ELSE Keyed(Ran(c0, "slow"), getClientIp(req))

globalRateLimit(c0, req) ==
    LET Counted(c, key, rate) ==
            IF rate[key].hits > GlobalMax
            THEN Reject([c EXCEPT !.lim.rate = rate], 429, "rate")
            ELSE [c EXCEPT !.lim.rate = rate]
        Keyed(c, key) == Counted(c, key, Increment(c.lim.rate, key, GlobalWindowMs))
    IN  IF ~IsApiPath(req.path) THEN Ran(c0, "rate")
        ELSE Keyed(Ran(c0, "rate"), getClientIp(req))

\* mutant: the origin of a suspicious request is banned
detectSuspiciousPatterns_Bans(c0, req) ==
    LET c == Ran(c0, "suspicious")
    IN  IF req.sql \/ req.xss
        THEN Reject(blockIP(c, getClientIp(req), RapidMinutes), 400, "suspicious")
        ELSE c

\* the two regular expressions are abstracted to what they decided (sql, xss)
detectSuspiciousPatterns(c0, req) ==
    LET c == Ran(c0, "suspicious")
    IN  IF req.sql \/ req.xss THEN Reject(c, 400, "suspicious") ELSE c

----------------------------------------------------------------------------
(* Routes, registered after the middlewares: the routes of routes.ts, then   *)
(* the honeypot paths, then the application's own pages.                     *)

\* Express matches a route whatever the case of the letters, with or without
\* a slash at the end
StripSlash(p) == IF Len(p) > 1 /\ p[Len(p)] = "/" THEN SubSeq(p, 1, Len(p) - 1) ELSE p

RoutePath(path) == StripSlash(ToLowerCase(path))

RouteMatches(path, route) == RoutePath(path) = route

blockedIpsRoute(c0, req) == Reject(Ran(c0, "blocked-ips"), 200, "blocked-ips")

\* `const success = unblockIP(ip)` is a Promise, which is truthy; with a Redis
\* client the answer goes out while redis.del is pending
unblockRoute(c0, req) ==
    LET c == Ran(c0, "unblock")
    IN  IF c.loc.body.adminKey # adminKeyEnv
        THEN Reject(c, 403, "unblock")
        ELSE [Reject(Detach(unblockIP(c, c.loc.body.ip)), 200, "unblock")
                  EXCEPT !.loc.success = TRUE]

\* /^\d{17,19}$/
IsDiscordId(userId) ==
    /\ userId # Absent
    /\ Len(userId) \in UserIdMinLen..UserIdMaxLen
    /\ IsDigits(userId)

UserPrefix == <<"u","s","e","r",":">>

\* the handler of POST /api/appeals up to its wait for the captcha service,
\* from the answer to its wait for the JSON value of the answer, and from
\* that value on; failedRequestLimiter takes back its hit when the response
\* that went out is a success
submitAppeal(c0, req) ==
    IF c0.loc.phase = "verify"
    THEN IF c0.threw THEN Reject(Resumed(c0), 500, "appeals")
         ELSE Await(c0, JsonOp, "json")
    ELSE IF c0.loc.phase = "json"
    THEN IF c0.threw THEN Reject(Resumed(c0), 500, "appeals")
         ELSE IF c0.reply = 0 THEN Reject(Resumed(c0), 400, "appeals")
         ELSE Reject([Resumed(c0) EXCEPT
                          !.lim.failed = IF c0.loc.answered \/ c0.loc.closed THEN @
                                         ELSE Decrement(@, getClientIp(req))],
                     200, "appeals")
    ELSE LET a == c0.loc.body.appeal
         IN  IF ~Truthy(a.userId) \/ ~a.denialDate \/ a.reasonLen = 0 \/ ~a.captchaToken
             THEN Reject(c0, 400, "appeals")
             ELSE IF ~IsDiscordId(a.userId) THEN Reject(c0, 400, "appeals")
             ELSE IF a.reasonLen < ReasonMinLen THEN Reject(c0, 400, "appeals")
             ELSE IF a.reasonLen > ReasonMaxLen THEN Reject(c0, 400, "appeals")
             ELSE IF captchaEnv = Undef THEN Reject(c0, 500, "appeals")
             ELSE Await(c0, FetchOp, "verify")

\* POST /api/appeals: appealsRateLimit, perUserAppealsLimit and
\* failedRequestLimiter, then the handler
appealsRoute(c0, req) ==
    LET Limited(c, key, userId, appeals, user, failed) ==
            IF appeals[key].hits > AppealsMax
            THEN Reject([c EXCEPT !.lim.appeals = appeals], 429, "appealsRateLimit")
            ELSE IF Truthy(userId) /\ user[UserPrefix \o userId].hits > UserMax
            THEN Reject([c EXCEPT !.lim.appeals = appeals, !.lim.user = user],
                        429, "perUserAppealsLimit")
            ELSE IF failed[key].hits > FailedMax
            THEN Reject([c EXCEPT !.lim.appeals = appeals, !.lim.user = user,
                                  !.lim.failed = failed],
                        429, "failedRequestLimiter")
            ELSE [c EXCEPT !.lim.appeals = appeals, !.lim.user = user,
                           !.lim.failed = failed]
        Keyed(c, key, userId) ==
            Limited(c, key, userId,
                    Increment(c.lim.appeals, key, AppealsWindowMs),
                    IF Truthy(userId)
                    THEN Increment(c.lim.user, UserPrefix \o userId, UserWindowMs)
                    ELSE c.lim.user,
                    Increment(c.lim.failed, key, FailedWindowMs))
        Passed(c) == IF c.loc.done THEN c ELSE submitAppeal(c, req)
    IN  Passed(IF c0.loc.phase \in {"verify", "json"} THEN c0
               ELSE Keyed(Ran(c0, "appeals"), getClientIp(req),
                          c0.loc.body.appeal.userId))

honeypotRoute(c0, req) ==
    LET c == Ran(c0, "honeypot")
    IN  Reject(blockIP(c, getClientIp(req), HoneypotMinutes), 404, "honeypot")

\* the pages of the application: the static files and index.html
appRoute(c0, req) == Reject(Ran(c0, "app"), 200, "app")

Route(c, req) ==
    IF req.method \in {"GET", "HEAD"} /\ RouteMatches(req.path, PathBlockedIps)
    THEN blockedIpsRoute(c, req)
    ELSE IF req.method = "POST" /\ RouteMatches(req.path, PathUnblock)
    THEN unblockRoute(c, req)
    ELSE IF req.method = "POST" /\ RouteMatches(req.path, PathAppeals)
    THEN appealsRoute(c, req)
    ELSE IF RoutePath(req.path) \in honeypotPaths
    THEN honeypotRoute(c, req)
    ELSE appRoute(c, req)

\* the middleware with the given name, run on the request
Apply(c, req, name) ==
    CASE name = "trust"       -> trustCloudflareProxy(c, req)
      [] name = "gate"        -> ipBlockingMiddleware(c, req)
      [] name = "method"      -> httpMethodValidation(c, req)
      [] name = "traversal"   -> pathTraversalDetection(c, req)
      [] name = "parser"      -> bodyParsers(c, req)
      [] name = "payload"     -> payloadBombProtection(c, req)
      [] name = "sanitize"    -> mongoSanitize(c, req)
      [] name = "hpp"         -> hpp(c, req)
      [] name = "header"      -> headerValidation(c, req)
      [] name = "timeout"     -> requestTimeout(c, req)
      [] name = "flood"       -> connectionFloodDetection(c, req)
      [] name = "rapid"       -> rapidRepeatDetection(c, req)
      [] name = "fingerprint" -> fingerprintAnomalyDetection(c, req)
      [] name = "slow"        -> speedLimiter(c, req)
      [] name = "rate"        -> globalRateLimit(c, req)
      [] name = "suspicious"  -> detectSuspiciousPatterns(c, req)
      [] name = "route"       -> Route(c, req)

\* the maps the code has written between two contexts
Written(c0, c) ==
    {m \in {"blocked"} : c.blk # c0.blk}
        \cup {m \in {"tracking"} : c.trk # c0.trk}
        \cup {m \in {"patterns"} : c.pat # c0.pat}
        \cup {m \in {"redis"} : c.rds # c0.rds}

Touch(c0, c) == [c EXCEPT !.loc.touched = @ \cup Written(c0, c)]

\* a middleware runs, or the blockIP it awaits has returned to it
Step(c, req, name) ==
    Touch(c, IF c.loc.phase = "blockIP" THEN Resumed(c) ELSE Apply(c, req, name))

MiddlewareOrder ==
    <<"trust", "gate", "method", "traversal", "parser", "payload", "sanitize",
      "hpp", "header", "timeout", "flood", "rapid", "fingerprint", "slow", "rate", "suspicious",
      "route">>

\* the chain from the i-th middleware on, up to the first that waits or
\* answers; a handler that resumes goes on in the middleware it waited in
RECURSIVE RunChain(_, _, _, _)
RunChain(c, req, i, resuming) ==
    IF ~resuming /\ (i > Len(MiddlewareOrder) \/ c.loc.done \/ Waiting(c)) THEN c
    ELSE RunChain(Step([c EXCEPT !.loc.pc = i], req, MiddlewareOrder[i]), req, i + 1, FALSE)

\* the handler of a request from its arrival to its first wait or its
\* answer; a request without a body has been received completely
Handle(req, id) ==
    RunChain(Ctx([NewLocal EXCEPT !.id = id, !.since = now, !.complete = ~HasBody(req)],
                 NoOp, FALSE, 0),
             req, 1, FALSE)

\* the handler from the settling of the operation it waited for to its next
\* wait or its answer: blockIP returns to the handler that awaits it, any
\* other wait is that of the middleware the request is in
Resume(c, req) == RunChain(c, req, c.loc.pc, TRUE)

----------------------------------------------------------------------------
(* State, and the steps of the system *)

\* the ledger notes, per origin, the latest blockIP call whose record a store
\* has taken and that is not followed by an unblockIP call; its ban is live
\* until the duration asked for has passed since the call.  A call is noted
\* when Redis carries its setex out, or when blockIP puts its record into the
\* map.  It also notes the latest instant at which a ban of the origin since
\* the last unblockIP call ends (far), the same for the bans Redis has taken
\* (farRedis), and for those of them whose blockIP call has returned
\* (farBack).
LedgerLive(o) == o \in DOMAIN ledger /\ now < ledger[o].until

NoBan ==
    [at |-> 0, min |-> 0, epoch |-> 0, store |-> "none", until |-> 0,
     far |-> 0, farRedis |-> 0, farBack |-> 0]

Max2(a, b) == IF a > b THEN a ELSE b

\* the ledger with one more ban of the origin
Noted(led, o, at, min, store) ==
    LET old == IF o \in DOMAIN led THEN led[o] ELSE NoBan
        until == at + min * MsPerMinute
    IN  MapPut(led, o,
               [at |-> at, min |-> min, epoch |-> epoch, store |-> store,
                until |-> until,
                far |-> Max2(old.far, until),
                farRedis |-> IF store = "redis" THEN Max2(old.farRedis, until)
                             ELSE old.farRedis,
                farBack |-> old.farBack])

\* an origin is clear when neither store holds a ban record for it and the
\* process holds no tracking record for it
Clear(o) ==
    /\ o \notin DOMAIN blocked
    /\ RedisGet(redisStore, o) = 0
    /\ o \notin DOMAIN tracking

\* what is on record for an origin at an instant
Snapshot(o) ==
    [at |-> now, live |-> LedgerLive(o), clear |-> Clear(o),
     ban |-> IF o \in DOMAIN ledger THEN ledger[o] ELSE NoBan,
     redis |-> RedisGet(redisStore, o),
     memory |-> IF o \in DOMAIN blocked THEN blocked[o] ELSE 0,
     tracked |-> o \in DOMAIN tracking,
     epoch |-> epoch]

NoSnapshot ==
    [at |-> 0, live |-> FALSE, clear |-> TRUE,
     ban |-> NoBan,
     redis |-> 0, memory |-> 0, tracked |-> FALSE, epoch |-> 0]

\* the response as the client gets it, with what the request did, what was on
\* record for its origin when it arrived (seen) and when the ban gate had its
\* answer (gate), and how many requests had arrived when it was sent (upto)
Response(req, loc, seen, gate, ep, upto) ==
    [req |-> req, id |-> loc.id, since |-> loc.since,
     status |-> loc.status, retry |-> loc.retry, by |-> loc.by, ran |-> loc.ran,
     calls |-> loc.calls, bans |-> loc.bans, unbans |-> loc.unbans,
     touched |-> loc.touched, success |-> loc.success, existed |-> loc.flag,
     faults |-> loc.faults,
     epoch |-> ep, seen |-> seen, gate |-> gate,
     upto |-> IF loc.id > upto THEN loc.id ELSE upto]

NoResp ==
    Response(Req(Absent, "GET", PathRoot, UA1, NoBody), NewLocal, NoSnapshot, NoSnapshot, 0, 0)

\* a handler that waits, or a call that goes on by itself (detached): the
\* operation waited for, how it settled (threw, reply), and the microtask
\* turn the code that awaits it is queued for (hop; 0 while the operation is
\* not settled)
Pending(op, req, loc, seen, gate, detached) ==
    [op |-> op, req |-> req, loc |-> loc, seen |-> seen, gate |-> gate,
     detached |-> detached, hop |-> IF op = TickOp THEN 1 ELSE 0,
     threw |-> FALSE, reply |-> 0]

Init ==
    /\ now = StartTime
    /\ redisOn \in BOOLEAN
    /\ redisStore = EmptyMap
    /\ blocked = EmptyMap
    /\ tracking = EmptyMap
    /\ patterns = EmptyMap
    /\ limits = NoLimits
    /\ sweepDue = StartTime + SweepIntervalMs
    /\ adminKeyEnv = AdminSecret
    /\ captchaEnv = CaptchaSecret
    /\ resp = NoResp
    /\ ledger = EmptyMap
    /\ floodHits = EmptyMap
    /\ burst = EmptyMap
    /\ faultsUsed = 0
    /\ epoch = 0
    /\ nreq = 0
    /\ narr = 0
    /\ nticks = 0
    /\ inflight = <<>>
    /\ chunk = "none"

RECURSIVE ApplyBans(_, _, _)
ApplyBans(led, bans, i) ==
    IF i > Len(bans) THEN led
    ELSE ApplyBans(Noted(led, bans[i].ip, bans[i].at, bans[i].min, bans[i].store),
                   bans, i + 1)

\* the ledger with the blockIP calls that have returned, Redis having taken
\* their records
RECURSIVE Back(_, _, _)
Back(led, bans, i) ==
    IF i > Len(bans) THEN led
    ELSE Back(IF bans[i].store = "redis" /\ bans[i].ip \in DOMAIN led
              THEN [led EXCEPT ![bans[i].ip].farBack =
                                   Max2(@, bans[i].at + bans[i].min * MsPerMinute)]
              ELSE led,
              bans, i + 1)

RECURSIVE ApplyUnbans(_, _, _)
ApplyUnbans(led, unbans, i) ==
    IF i > Len(unbans) THEN led
    ELSE ApplyUnbans(MapDel(led, unbans[i]), unbans, i + 1)

\* none of the checks that look at the request alone objects to it, and it is
\* not for a honeypot path
Alone(name, req) ==
    Apply(Ctx([NewLocal EXCEPT !.body = BodyOf(req)], NoOp, FALSE, 0), req, name)

Benign(req) ==
    LET Passes(c) ==
            /\ ~trustCloudflareProxy(c, req).loc.done
            /\ ~httpMethodValidation(c, req).loc.done
            /\ ~pathTraversalDetection(c, req).loc.done
            /\ ~bodyParsers(c, req).loc.done
            /\ ~payloadBombProtection(c, req).loc.done
            /\ ~headerValidation(c, req).loc.done
            /\ ~detectSuspiciousPatterns(c, req).loc.done
    IN  /\ Passes(Ctx([NewLocal EXCEPT !.body = BodyOf(req)], NoOp, FALSE, 0))
        /\ RoutePath(req.path) \notin honeypotPaths

\* the request repeats a signature that rapidRepeatDetection saw less than
\* RapidWindowMs ago
RapidHit(req) ==
    LET Hit(key) == key \in DOMAIN patterns /\ now - patterns[key] < RapidWindowMs
    IN  Hit(SignatureKey(req))

\* the fingerprint of the request differs from the one stored for its origin
FingerprintChanged(req) ==
    LET Changed(o, fp) ==
            /\ o \in DOMAIN tracking
            /\ tracking[o].fingerprint # <<>>
            /\ tracking[o].fingerprint # fp
    IN  Changed(getClientIp(req), generateRequestFingerprint(req))

Did(ran, name) == \E i \in 1..Len(ran) : ran[i] = name

\* history of the API requests of an origin since it was last clear: when the
\* run began, how many there were, when each signature was last sent, and
\* whether all were benign, no signature came twice within RapidWindowMs and
\* the fingerprint headers never changed; how many rapid repeats
\* rapidRepeatDetection has seen and how many fingerprint changes
\* fingerprintAnomalyDetection has seen; whether all were benign; the statuses
\* answered.  A request is counted when it comes to the flood counter, or
\* when it is answered before that.
Tally(o, req, rep, chg, benign, sig, fp) ==
    IF Clear(o)
    THEN MapPut(burst, o, [start |-> now, n |-> 1,
                           sigs |-> MapPut(EmptyMap, sig, now),
                           fp |-> fp, clean |-> benign,
                           repeats |-> rep, changes |-> chg,
                           benign |-> benign, codes |-> {}])
    ELSE IF o \in DOMAIN burst
         THEN MapPut(burst, o,
                     [start |-> burst[o].start, n |-> burst[o].n + 1,
                      sigs |-> MapPut(burst[o].sigs, sig, now),
                      fp |-> burst[o].fp,
                      clean |-> /\ burst[o].clean
                                /\ benign
                                /\ burst[o].fp = fp
                                /\ IF sig \in DOMAIN burst[o].sigs
                                   THEN now - burst[o].sigs[sig] >= RapidWindowMs
                                   ELSE TRUE,
                      repeats |-> burst[o].repeats + rep,
                      changes |-> burst[o].changes + chg,
                      benign |-> burst[o].benign /\ benign,
                      codes |-> burst[o].codes])
         ELSE burst

NextBurst(o, req, ran) ==
    Tally(o, req,
          IF Did(ran, "rapid") /\ RapidHit(req) THEN 1 ELSE 0,
          IF Did(ran, "fingerprint") /\ FingerprintChanged(req) THEN 1 ELSE 0,
          Benign(req), SignatureKey(req), generateRequestFingerprint(req))

AddCode(b, o, status) ==
    IF o \in DOMAIN b THEN [b EXCEPT ![o].codes = @ \cup {status}] ELSE b

\* flood rejections counted over the origin's tracking record
FloodHitsOf(o) ==
    IF o \in DOMAIN floodHits /\ o \in DOMAIN tracking THEN floodHits[o] ELSE 0

\* the bans of blockIP calls that put their record into the map
InMap(bans) == SelectSeq(bans, LAMBDA b : b.store = "memory")

\* the values of the variables a step of a handler may change
Current ==
    [blk |-> blocked, trk |-> tracking, pat |-> patterns, rds |-> redisStore,
     lim |-> limits, sweep |-> sweepDue, resp |-> resp, ledger |-> ledger,
     floodHits |-> floodHits, burst |-> burst, faults |-> faultsUsed,
     epoch |-> epoch, nreq |-> nreq, inflight |-> inflight]

Install(n) ==
    /\ blocked' = n.blk
    /\ tracking' = n.trk
    /\ patterns' = n.pat
    /\ redisStore' = n.rds
    /\ limits' = n.lim
    /\ sweepDue' = n.sweep
    /\ resp' = n.resp
    /\ ledger' = n.ledger
    /\ floodHits' = n.floodHits
    /\ burst' = n.burst
    /\ faultsUsed' = n.faults
    /\ epoch' = n.epoch
    /\ nreq' = n.nreq
    /\ inflight' = n.inflight

\* the await of a Redis call throws in this run of code: the first turn
\* after the promise of the call was rejected
Throws(c) == c.threw /\ c.op.kind \in RedisKinds /\ c.hop = 1

\* the handler calls res.json when the response has gone out already
Late(c) == c.loc.done /\ ~Waiting(c) /\ c.loc.answered

\* the handler sends its response; what is written to a socket that has been
\* destroyed goes nowhere
Sends(c) == c.loc.done /\ ~Waiting(c) /\ ~c.loc.answered /\ ~c.loc.closed

\* the handler has come to its end and the socket of its request stays open
\* with the callback of requestTimeout listening: the request has been
\* answered, by the handler or by the callback, and has not been received
\* completely; the clients of the model keep their connections alive
Lingers(c, p) ==
    /\ ~p.detached
    /\ c.loc.done
    /\ c.loc.armed >= 0
    /\ ~c.loc.complete
    /\ ~c.loc.closed

\* the request is counted in the history of API requests in this run
Counts(c, p) ==
    /\ IsApiPath(p.req.path) /\ ~p.detached /\ ~p.loc.counted
    /\ (Did(c.loc.ran, "flood") \/ c.loc.done)

Account(c, p, rest, o, loc, counted, bans, unbans) ==
    [blk |-> c.blk, trk |-> c.trk, pat |-> c.pat, rds |-> c.rds, lim |-> c.lim,
     sweep |-> sweepDue,
     resp |-> IF p.detached
              THEN IF resp.id = p.loc.id /\ p.op.kind = "del"
                   THEN [resp EXCEPT !.existed = c.loc.flag]
                   ELSE resp
              ELSE IF Sends(c) THEN Response(p.req, loc, p.seen, p.gate, epoch, narr)
              ELSE resp,
     ledger |-> ApplyUnbans(ApplyBans(Back(ledger, bans, 1), InMap(bans), 1), unbans, 1),
     floodHits |-> IF c.loc.by = "flood" /\ p.loc.by # "flood"
                   THEN MapPut(floodHits, o, FloodHitsOf(o) + 1)
                   ELSE floodHits,
     burst |-> IF Sends(c) /\ IsApiPath(p.req.path) /\ ~p.detached
               THEN AddCode(counted, o, c.loc.status)
               ELSE counted,
     faults |-> faultsUsed + (IF Throws(c) THEN 1 ELSE 0),
     epoch |-> epoch,
     nreq |-> IF Sends(c) /\ ~p.detached THEN nreq + 1 ELSE nreq,
     inflight |-> rest
         \o [i \in 1..Len(c.ops) |->
                Pending(c.ops[i], p.req, loc, p.seen, p.gate, TRUE)]
         \o (IF ~Waiting(c)
             THEN IF Lingers(c, p)
                  THEN <<Pending(SocketOp, p.req,
                                 [loc EXCEPT !.answered = TRUE,
                                             !.idle = IF Sends(c) THEN now ELSE @],
                                 p.seen, p.gate, TRUE)>>
                  ELSE <<>>
             ELSE IF c.again
             THEN <<[Pending(c.wait, p.req, loc, p.seen, p.gate, p.detached) EXCEPT
                        !.hop = c.hop + 1, !.threw = c.threw, !.reply = c.reply]>>
             ELSE <<Pending(c.wait, p.req, loc, p.seen, p.gate, FALSE)>>)]

\* The state after a run of handler code for request p.req that started with
\* p.loc and ended with context c; rest is what else is waiting.
Outcome(c, p, rest) ==
    LET Of(o, counts) ==
            Account(c, p, rest, o,
                    [c.loc EXCEPT !.counted = @ \/ counts,
                                  !.faults = @ + (IF Throws(c) THEN 1 ELSE 0)],
                    IF counts THEN NextBurst(o, p.req, c.loc.ran) ELSE burst,
                    SubSeq(c.loc.bans, Len(p.loc.bans) + 1, Len(c.loc.bans)),
                    SubSeq(c.loc.unbans, Len(p.loc.unbans) + 1, Len(c.loc.unbans)))
    IN  Of(getClientIp(p.req), Counts(c, p))

\* what Redis holds once it has carried out a command
Carried(rds, op) ==
    IF op.kind = "setex" THEN blockIPRedis(rds, op.ip, op.min, op.val)
    ELSE IF op.kind = "del" THEN MapDel(rds, op.ip)
    ELSE rds

\* the Redis commands a process has sent and has no reply to, carried out by
\* Redis in order
RECURSIVE Flush(_, _)
Flush(rds, pending) ==
    IF pending = <<>> THEN rds
    ELSE Flush(IF Head(pending).hop = 0 THEN Carried(rds, Head(pending).op) ELSE rds,
               Tail(pending))

\* an unblockIP call for the key was made after the blockIP call of the
\* command Redis carries out now: its redis.del is still to be carried out
Revoked(pending, key) ==
    \E j \in 1..Len(pending) :
        pending[j].hop = 0 /\ pending[j].op.kind = "del" /\ pending[j].op.ip = key

\* the ledger once Redis has carried out the command op
Took(led, pending, op) ==
    IF op.kind = "setex" /\ ~Revoked(pending, op.ip)
    THEN Noted(led, op.ip, CalledAt(op), op.min, "redis")
    ELSE led

\* the ledger once Redis has carried out the pending commands (sent)
RECURSIVE Sent(_, _, _)
Sent(led, pending, sent) ==
    IF pending = <<>> THEN led
    ELSE LET p == Head(pending)
         IN  Sent(IF sent /\ p.hop = 0 /\ p.op.kind = "setex"
                  THEN Noted(led, p.op.ip, CalledAt(p.op), p.op.min, "redis")
                  ELSE IF sent /\ p.hop = 0 /\ p.op.kind = "del" THEN MapDel(led, p.op.ip)
                  ELSE led,
                  Tail(pending), sent)

\* the bans that went to the map of a process end with the process
Forgotten(led) == [o \in DOMAIN led |-> [led[o] EXCEPT !.far = led[o].farRedis]]

\* the process ends and a new one is started: its maps and limiter stores are
\* new, the requests it was handling get no answer, Redis stays; the commands
\* the old process had not had the reply to have reached Redis (sent) or are
\* lost with it
Restarted(n, sent) ==
    [n EXCEPT !.blk = EmptyMap, !.trk = EmptyMap, !.pat = EmptyMap,
              !.lim = NoLimits, !.sweep = now + SweepIntervalMs,
              !.floodHits = EmptyMap, !.epoch = @ + 1,
              !.rds = IF sent THEN Flush(n.rds, n.inflight) ELSE n.rds,
              !.ledger = Forgotten(Sent(n.ledger, n.inflight, sent)),
              !.inflight = <<>>]

\* the continuations that wait for their turn among the microtasks, the
\* first of them the one that runs next
Ticks == {i \in 1..Len(inflight) : inflight[i].hop > 0}

HasTick(pending) == \E i \in 1..Len(pending) : pending[i].hop > 0

\* A request arrives and its handler runs to its first wait or to its answer;
\* cap bounds the number of requests of a behaviour.  The event loop takes a
\* chunk of requests when no microtask is left, and the parser hands every
\* request of the chunk to its handler before a microtask runs.  Without a
\* Redis client isIPBlocked has looked into the map when the handler waits.
Arrive(req, cap) ==
    /\ narr < cap
    /\ Ticks = {} \/ chunk = "requests"
    /\ narr' = narr + 1
    /\ \E c \in {Handle(req, narr + 1)}, s \in {Snapshot(getClientIp(req))} :
          \E n \in {Outcome(c, Pending(NoOp, req, NewLocal, s,
                                      IF redisOn THEN NoSnapshot ELSE s, FALSE),
                             inflight)} :
              /\ Install(n)
              /\ chunk' = IF HasTick(n.inflight) THEN "requests" ELSE "none"
    /\ UNCHANGED <<now, redisOn, adminKeyEnv, captchaEnv, nticks>>

\* what Redis, or the captcha service, answers to the operation
ReplyTo(op, ok) ==
    CASE op.kind = "get"   -> RedisGet(redisStore, op.ip)
      [] op.kind = "del"   -> RedisDel(redisStore, op.ip)
      [] op.kind = "fetch" -> 1
      [] op.kind = "json"  -> IF ok THEN 1 ELSE 0
      [] OTHER             -> 0

\* The microtask turns from the settling of the promise of an operation to
\* the code of the middleware or the route that waits: redis.get is awaited
\* by isIPBlockedRedis, that by isIPBlocked, that by ipBlockingMiddleware,
\* which awaits its second redis.get itself; redis.setex is awaited by
\* blockIPRedis, that by blockIP, that by the detector unless it does not
\* await; redis.del is awaited by unblockIP, fetch and json() by the route.
\* The parser and the timers call back.
Hops(p) ==
    CASE p.op.kind = "get"   -> IF p.loc.phase = "isIPBlocked" THEN 3 ELSE 1
      [] p.op.kind = "setex" -> IF p.detached THEN 2 ELSE 3
      [] p.op.kind \in {"del", "fetch", "json", "tick"} -> 1
      [] OTHER -> 0

\* the promise of the i-th operation is still to be settled
Unsettled(i) == inflight[i].hop = 0 /\ inflight[i].op.kind \in PromiseKinds

\* no Redis command sent before the i-th operation is still unanswered: Redis
\* answers the commands of a connection in the order they were sent
InOrder(i) ==
    inflight[i].op.kind \in RedisKinds =>
        \A j \in 1..(i - 1) :
            inflight[j].op.kind \in RedisKinds => inflight[j].hop > 0

\* the microtasks run in the order they were queued, and the event loop
\* takes its next event when none is left: a timer fires when it is due, the
\* other operations settle when their service answers; the replies of Redis
\* that come in one read settle their promises before a microtask runs
CanSettle(i) ==
    IF inflight[i].hop > 0 THEN \A j \in Ticks : i <= j
    ELSE /\ Ticks = {} \/ (chunk = "replies" /\ inflight[i].op.kind \in RedisKinds)
         /\ InOrder(i)
         /\ inflight[i].op.kind = "timer" => now >= inflight[i].op.val
         /\ inflight[i].op.kind # "socket"

\* the rejected promises of Redis calls whose await has not thrown yet
Unseen ==
    Cardinality({j \in 1..Len(inflight) :
                   /\ inflight[j].hop = 1
                   /\ inflight[j].threw
                   /\ inflight[j].op.kind \in RedisKinds})

\* the operation with its promise settled: the code that awaits it is queued
\* behind the microtasks there are; the gate has its answer from what Redis
\* holds now
Settled(p, f, ok) ==
    [p EXCEPT !.hop = 1, !.threw = f, !.reply = ReplyTo(p.op, ok),
              !.gate = IF p.op.kind = "get" /\ p.loc.phase = "isIPBlocked"
                       THEN Snapshot(getClientIp(p.req))
                       ELSE @]

\* the code that runs in the turn of the waiting operation p: the async
\* function that awaits the settled promise, which returns to the next one
\* up (again) or to nobody, or the middleware or route itself
Turn(p) ==
    LET c == [Ctx(p.loc, p.op, p.threw, p.reply) EXCEPT !.hop = p.hop]
        Inner(d) ==
            IF p.op.kind = "get" /\ p.hop = 1 /\ p.loc.phase = "isIPBlocked"
            THEN isIPBlockedRedis(d, p.op.arg)
            ELSE IF p.op.kind = "setex" /\ p.hop = 2 THEN Touch(d, blockIPReturns(d))
            ELSE IF p.op.kind = "del" /\ p.detached THEN Touch(d, unblockIPReturns(d))
            ELSE d
    IN  IF p.hop < Hops(p) THEN [Inner(c) EXCEPT !.wait = p.op, !.again = TRUE]
        ELSE IF p.detached THEN Inner(c)
        ELSE Resume(c, p.req)

\* The i-th waiting operation settles.  Redis carries the command out and
\* answers, or the call fails (f); the captcha service answers, with success
\* or not (ok); the promise is settled and the code that awaits it is queued
\* as a microtask.  Or it is the turn of that microtask, or the parser or a
\* timer calls back, and code of the handler runs up to its next wait or its
\* answer.  A handler that comes to send its response when 408 has gone out
\* throws ERR_HTTP_HEADERS_SENT in an async function: the rejection is
\* unhandled, and the process goes on or ends and is started again (crash).
Settle(i, f, ok, crash) ==
    /\ i \in 1..Len(inflight)
    /\ CanSettle(i)
    /\ f => Unsettled(i)
    /\ (f /\ inflight[i].op.kind \in RedisKinds) => faultsUsed + Unseen < MaxFaults
    /\ ~ok => (Unsettled(i) /\ inflight[i].op.kind = "json" /\ ~f)
    /\ IF Unsettled(i)
       THEN /\ ~crash
            /\ Install([Current EXCEPT
                           !.rds = IF f THEN @ ELSE Carried(@, inflight[i].op),
                           !.ledger = IF f THEN @ ELSE Took(@, inflight, inflight[i].op),
                           !.inflight = Append(Without(inflight, i),
                                               Settled(inflight[i], f, ok))])
            /\ chunk' = IF inflight[i].op.kind \in RedisKinds THEN "replies" ELSE "none"
       ELSE /\ \E c \in {Turn(inflight[i])} :
                  /\ crash => (Late(c) /\ epoch < MaxRestarts)
                  /\ \E n \in {Outcome(c, inflight[i], Without(inflight, i))} :
                        \E m \in (IF crash THEN {Restarted(n, TRUE), Restarted(n, FALSE)}
                                  ELSE {n}) : Install(m)
            /\ chunk' = "none"
    /\ UNCHANGED <<now, redisOn, adminKeyEnv, captchaEnv, narr, nticks>>

\* the instants at which a timer of a waiting handler is due
TimerDues ==
    {inflight[i].op.val : i \in {j \in 1..Len(inflight) : inflight[j].op.kind = "timer"}}

\* the sockets on which the callback of requestTimeout listens and whose idle
\* timeout is running: those of the waiting requests that have passed
\* requestTimeout, and those kept alive after the answer to a request that
\* has not been received completely
Armed ==
    {i \in 1..Len(inflight) :
        /\ ~inflight[i].detached \/ inflight[i].op = SocketOp
        /\ inflight[i].loc.armed >= 0
        /\ ~inflight[i].loc.closed
        /\ inflight[i].loc.answered => ~inflight[i].loc.complete}

\* the idle timeout of a socket: that of req.setTimeout until a response has
\* gone out on it, from then on that of a connection kept alive
IdleTimeout(p) == IF p.loc.answered THEN KeepAliveMs ELSE RequestTimeoutMs

\* the instant at which the timeout of the socket is due: its idle timeout
\* after the socket was last active
DueAt(p) == p.loc.idle + IdleTimeout(p)

\* the instants at which the timeout of a socket is due
DeadlineDues == {DueAt(inflight[i]) : i \in Armed}

\* those at which the callback of requestTimeout runs: the server emits
\* 'timeout' on a request that it has not received completely
CallbackDues == {DueAt(inflight[i]) : i \in {j \in Armed : ~inflight[j].loc.complete}}

\* The callback of req.setTimeout: the socket of a request that has not been
\* received completely has been idle for its timeout.  When no response has
\* gone out, 408 is sent, what the request waits for stays pending and the
\* socket is kept alive.  When one has, by a handler or by the callback
\* itself, `res.status(408).json(...)` throws ERR_HTTP_HEADERS_SENT in the
\* timer callback: an uncaught exception, which ends the process; a new one
\* is started.
Deadline(i) ==
    /\ i \in Armed
    /\ Ticks = {}
    /\ ~inflight[i].loc.complete
    /\ now >= DueAt(inflight[i])
    /\ IF ~inflight[i].loc.answered
       THEN Install([Current EXCEPT
                !.resp = Response(inflight[i].req,
                                  [inflight[i].loc EXCEPT
                                      !.status = 408, !.by = "timeout", !.retry = -1,
                                      !.success = FALSE, !.flag = FALSE],
                                  inflight[i].seen, inflight[i].gate, epoch, narr),
                !.nreq = @ + 1,
                !.burst = IF IsApiPath(inflight[i].req.path)
                          THEN AddCode(@, getClientIp(inflight[i].req), 408)
                          ELSE @,
                !.inflight = [@ EXCEPT ![i].loc.answered = TRUE, ![i].loc.idle = now]])
       ELSE \E n \in {Restarted(Current, TRUE), Restarted(Current, FALSE)} : Install(n)
    /\ chunk' = "none"
    /\ UNCHANGED <<now, redisOn, adminKeyEnv, captchaEnv, narr, nticks>>

\* Bytes of the body of a request arrive, which no parser reads: the socket
\* has been active, and with the last of them (last) the request is received
\* completely, and a socket that was kept alive for it alone waits for the
\* next request; cap bounds the number of arrivals that are not the last.
Receive(i, last, cap) ==
    /\ i \in 1..Len(inflight)
    /\ Ticks = {}
    /\ ~inflight[i].detached \/ inflight[i].op = SocketOp
    /\ ~inflight[i].loc.complete
    /\ inflight[i].op.kind # "body"
    /\ ~inflight[i].loc.closed
    /\ ~last => (nticks < cap /\ inflight[i].loc.armed >= 0 /\ inflight[i].loc.idle < now)
    /\ nticks' = IF last THEN nticks ELSE nticks + 1
    /\ inflight' = IF last /\ inflight[i].op = SocketOp THEN Without(inflight, i)
                   ELSE [inflight EXCEPT
                            ![i].loc.complete = last,
                            ![i].loc.idle = IF inflight[i].loc.armed >= 0 THEN now ELSE @]
    /\ chunk' = "none"
    /\ UNCHANGED <<now, redisOn, redisStore, blocked, tracking, patterns, limits,
                   sweepDue, adminKeyEnv, captchaEnv, resp, ledger, floodHits, burst,
                   faultsUsed, epoch, nreq, narr>>

\* Redis drops the keys whose TTL has run out
Expire(rds, t) == [k \in {x \in DOMAIN rds : t < rds[x].until} |-> rds[k]]

\* the socket of a request that has been received completely is destroyed
\* when its timeout is due: the server emits 'timeout' for no such request
Destroyed(pending, t) ==
    [i \in 1..Len(pending) |->
        IF /\ ~pending[i].detached
           /\ pending[i].loc.armed >= 0
           /\ pending[i].loc.complete
           /\ ~pending[i].loc.answered
           /\ DueAt(pending[i]) <= t
        THEN [pending[i] EXCEPT !.loc.closed = TRUE]
        ELSE pending[i]]

\* time passes up to the instant t, which no timer and no callback of
\* requestTimeout is due before; the code that runs between two events of the
\* event loop runs at one instant
Advance(t) ==
    /\ t > now
    /\ Ticks = {}
    /\ \A due \in TimerDues \cup CallbackDues : t <= due
    /\ now' = t
    /\ redisStore' = Expire(redisStore, t)
    /\ inflight' = Destroyed(inflight, t)
    /\ chunk' = "none"
    /\ UNCHANGED <<redisOn, blocked, tracking, patterns, limits, sweepDue,
                   adminKeyEnv, captchaEnv, resp, ledger, floodHits, burst,
                   faultsUsed, epoch, nreq, narr>>

\* Time passes between requests.
Tick(d, cap) ==
    /\ nticks < cap
    /\ nticks' = nticks + 1
    /\ Advance(now + d)

\* Time passes until the timer of the speed limiter is due.
AwaitTimer ==
    /\ nticks' = nticks
    /\ \E t \in TimerDues : Advance(t)

\* Time passes until the timeout of the socket of a waiting request is due.
AwaitDeadline ==
    /\ nticks' = nticks
    /\ \E t \in DeadlineDues : Advance(t)

SweepBlocked(blk) == [k \in {x \in DOMAIN blk : ~(blk[x] < now)} |-> blk[k]]

SweepTracking(trk) ==
    [k \in {x \in DOMAIN trk : ~(now - trk[x].firstRequest > TrackingGcMs)} |-> trk[k]]

\* the setInterval callback of advanced-security.ts
Sweep ==
    /\ now >= sweepDue
    /\ Ticks = {}
    /\ blocked' = SweepBlocked(blocked)
    /\ tracking' = SweepTracking(tracking)
    /\ sweepDue' = now + SweepIntervalMs
    /\ floodHits' = [k \in DOMAIN floodHits \cap DOMAIN SweepTracking(tracking) |-> floodHits[k]]
    /\ chunk' = "none"
    /\ UNCHANGED <<now, redisOn, redisStore, patterns, limits, adminKeyEnv, captchaEnv,
                   resp, ledger, burst, faultsUsed, epoch, nreq, narr, nticks, inflight>>

\* The process is stopped and a new one started, with or without a Redis
\* client, whatever its maps hold.
Restart ==
    /\ epoch < MaxRestarts
    /\ \E n \in {Restarted(Current, TRUE), Restarted(Current, FALSE)} : Install(n)
    /\ chunk' = "none"
    /\ UNCHANGED <<now, redisOn, adminKeyEnv, captchaEnv, narr, nticks>>

\* the handlers that are waiting
Handlers == {i \in 1..Len(inflight) : ~inflight[i].detached}

----------------------------------------------------------------------------
(* Scenarios *)

\* a new request arrives while fewer than MaxInflight handlers are waiting
Concurrent(req, cap) == Cardinality(Handlers) < MaxInflight /\ Arrive(req, cap)

\* a client that sends its next request when the last one is through
Sequential(req, cap) == Handlers = {} /\ Arrive(req, cap)

\* a waiting operation settles, or the code that awaits it has its turn; a
\* Redis call may fail
Settling == \E i \in 1..Len(inflight), f \in BOOLEAN : Settle(i, f, TRUE, FALSE)

\* the same; Redis answers
Answering == \E i \in 1..Len(inflight) : Settle(i, FALSE, TRUE, FALSE)

SecretText(key) == IF key = AdminSecret THEN <<"s","3","c","r","e","t">> ELSE <<"g","u","e","s","s">>

\* the body {"ip": ..., "adminKey": ...}, without the key that is not given
UnblockBody(ip, key) ==
    [NoBody EXCEPT
        !.ip = ip, !.adminKey = key,
        !.json = Object((IF ip = Absent THEN <<>> ELSE << <<"i","p">> >>)
                            \o (IF key = Undef THEN <<>>
                                ELSE << <<"a","d","m","i","n","K","e","y">> >>),
                        (IF ip = Absent THEN <<>> ELSE <<Str(ip)>>)
                            \o (IF key = Undef THEN <<>> ELSE <<Str(SecretText(key))>>))]

\* The default specification: one origin probing, hitting a honeypot path and
\* sending an invalid method, in both store modes, with Redis failures.
StoreCatalogue ==
    { Req(Attacker, "GET", PathRoot, UA1, NoBody),
      Req(Attacker, "GET", PathSwagger, UA1, NoBody),
      Req(Attacker, "TRACE", PathWpAdmin, UA1, NoBody) }

StoreDeltas == {1, MethodMinutes * MsPerMinute, HoneypotMinutes * MsPerMinute}

StoreRequest == \E req \in StoreCatalogue : Sequential(req, MaxReq)

StoreTick == \E d \in StoreDeltas : Tick(d, MaxTicks)

Next == StoreRequest \/ Settling \/ StoreTick \/ Sweep \/ Restart

Spec == Init /\ [][Next]_vars

\* The admin specification: the attacker gets banned, the admin unblocks.
AdminCatalogue ==
    { Req(Attacker, "GET", PathRoot, UA1, NoBody),
      Req(Attacker, "TRACE", PathRoot, UA1, NoBody),
      Req(Admin, "POST", PathUnblock, UA1, UnblockBody(Attacker, AdminSecret)),
      Req(Admin, "POST", PathUnblock, UA1, UnblockBody(Attacker, WrongKey)) }

AdminDeltas == {1, MethodMinutes * MsPerMinute}

AdminRequest == \E req \in AdminCatalogue : Concurrent(req, MaxReq)

AdminTick == Handlers = {} /\ \E d \in AdminDeltas : Tick(d, MaxTicks)

NextAdmin == AdminRequest \/ Settling \/ AdminTick \/ Sweep \/ Restart

SpecAdmin == Init /\ [][NextAdmin]_vars

\* The flood specification: one origin sends bursts of API requests, each
\* either of a signature not sent before or the repeated GET /api/status, one
\* after the other. The client pauses once it has sent FloodLimit requests in
\* a window, for a time that keeps the next request inside the window or puts
\* it just outside; while banned it sends nothing and waits, and it stays
\* under the number of requests from which the speed limiter delays. Redis
\* answers every call.
FreshPath(k) == ApiPrefix \o <<"/">> \o [i \in 1..k |-> "x"]

\* how many signatures other than that of GET /api/status have been sent
FreshSent ==
    Cardinality(DOMAIN patterns \ {SignatureKey(Req(Attacker, "GET", PathStatus, UA1, NoBody))})

FloodCatalogue ==
    { Req(Attacker, "GET", FreshPath(FreshSent + 1), UA1, NoBody),
      Req(Attacker, "GET", PathStatus, UA1, NoBody) }

\* the speed limiter has counted fewer than delayAfter requests of the origin
\* in its running window
UnderSpeedLimit(o) ==
    IF o \in DOMAIN limits.slow /\ now < limits.slow[o].reset
    THEN limits.slow[o].hits < SlowDelayAfter
    ELSE TRUE

FloodRequest ==
    /\ ~LedgerLive(Attacker)
    /\ UnderSpeedLimit(Attacker)
    /\ \E req \in FloodCatalogue : Sequential(req, MaxFloodReq)

FloodPause ==
    /\ Handlers = {}
    /\ Attacker \in DOMAIN tracking
    /\ tracking[Attacker].count = FloodLimit
    /\ \E d \in {FloodSpanMs, FloodWindowMs + 1} : Tick(d, MaxFloodTicks)

FloodWait ==
    /\ Handlers = {}
    /\ LedgerLive(Attacker)
    /\ Tick(FloodStepMinutes * MsPerMinute, MaxFloodTicks)

NextFlood == FloodRequest \/ Answering \/ FloodPause \/ FloodWait \/ Sweep

SpecFlood == Init /\ [][NextFlood]_vars

\* The admin-key specification: the secrets of the environment are configured
\* or unset, the unblock request carries the secret, another key or none.
InitKey ==
    /\ now = StartTime
    /\ redisOn \in BOOLEAN
    /\ redisStore = EmptyMap
    /\ blocked = EmptyMap
    /\ tracking = EmptyMap
    /\ patterns = EmptyMap
    /\ limits = NoLimits
    /\ sweepDue = StartTime + SweepIntervalMs
    /\ adminKeyEnv \in {AdminSecret, Undef}
    /\ captchaEnv = (IF adminKeyEnv = Undef THEN Undef ELSE CaptchaSecret)
    /\ resp = NoResp
    /\ ledger = EmptyMap
    /\ floodHits = EmptyMap
    /\ burst = EmptyMap
    /\ faultsUsed = 0
    /\ epoch = 0
    /\ nreq = 0
    /\ narr = 0
    /\ nticks = 0
    /\ inflight = <<>>
    /\ chunk = "none"

KeyCatalogue ==
    { Req(Attacker, "TRACE", PathRoot, UA1, NoBody),
      Req(Admin, "POST", PathUnblock, UA1, UnblockBody(Attacker, AdminSecret)),
      Req(Admin, "POST", PathUnblock, UA1, UnblockBody(Attacker, WrongKey)),
      Req(Admin, "POST", PathUnblock, UA1, UnblockBody(Attacker, Undef)),
      Req(Admin, "POST", PathUnblock, UA1, NoBody) }

KeyRequest == \E req \in KeyCatalogue : Sequential(req, MaxReq)

NextKey == KeyRequest \/ Settling \/ AdminTick \/ Sweep \/ Restart

SpecKey == InitKey /\ [][NextKey]_vars

\* The detector specification: requests that trip none, one or two of the
\* stateless checks (method, traversal, payload shape, header injection,
\* suspicious content), with and without forwarded-address headers, from an
\* untrusted peer, from a trusted proxy and over a socket that has no peer
\* address any more.
RECURSIVE Nest(_)
Nest(n) == IF n = 0 THEN Leaf ELSE Obj(<<Nest(n - 1)>>)

RECURSIVE NestEmpty(_)
NestEmpty(n) == IF n = 0 THEN Obj(<<>>) ELSE Obj(<<NestEmpty(n - 1)>>)

JsonBody(json) == [NoBody EXCEPT !.json = json]

\* bodies nested from just below the limit up to MaxNest, ending in a value or
\* in an empty container, alone or next to a shallow sibling
DetectBodies ==
    {JsonBody(Nest(n)) : n \in PayloadMaxDepth..MaxNest}
        \cup {JsonBody(NestEmpty(n)) : n \in PayloadMaxDepth..(PayloadMaxDepth + 1)}
        \cup {JsonBody(Obj(<<Leaf, Nest(n)>>)) : n \in (PayloadMaxDepth - 1)..PayloadMaxDepth}

\* bodies that differ in a value only, one with a key mongoSanitize deletes,
\* two that differ in the order of their keys only, the keys being array
\* indices, and one with a form feed in a string
KeyedBodies ==
    { JsonBody(Obj(<<Leaf>>)),
      JsonBody(Obj(<<Two>>)),
      JsonBody(Object(<< <<"$","w">>, <<"a">> >>, <<Leaf, Leaf>>)),
      JsonBody(Object(<< <<"2">>, <<"1">> >>, <<Leaf, Two>>)),
      JsonBody(Object(<< <<"1">>, <<"2">> >>, <<Two, Leaf>>)),
      JsonBody(Obj(<<Str(<<"p", "\f", "q">>)>>)) }

\* forms with a parameter given once and given twice
FormBodies ==
    { JsonBody(Obj(<<Two>>)),
      JsonBody(Obj(<<Arr(<<Leaf, Two>>)>>)) }

PathClimb == <<"/","a","p","i","/",".",".","/","x">>

PathClimbHex == <<"/","a","p","i","/","%","2","E","%","2","E","/","x">>

PathClimbUpper == <<"/","A","P","I","/","%","C","0","%","A","E">>

PathStatusUpper == <<"/","A","P","I","/","s","t","a","t","u","s">>

PathSwaggerSlash == <<"/","a","p","i","/","s","w","a","g","g","e","r","/">>

UAInjected == <<"M","o","z","\r","\n","X">>

TypeInjected == <<"t","e","x","t","/","p","l","a","i","n","\r","\n","X">>

VictimInjected == <<"1","9","2",".","0",".","2",".","4","4","\r","\n","X">>

DetectCatalogue ==
    { Req(Attacker, "GET", PathStatus, UA1, NoBody),
      Req(Attacker, "DELETE", PathStatus, UA1, NoBody),
      Req(Attacker, "TRACE", PathStatus, UA1, NoBody),
      Req(Attacker, "GET", PathClimb, UA1, NoBody),
      Req(Attacker, "GET", PathClimbHex, UA1, NoBody),
      Req(Attacker, "GET", PathClimbUpper, UA1, NoBody),
      Req(Attacker, "GET", PathStatusUpper, UAInjected, NoBody),
      Req(Attacker, "GET", PathSwaggerSlash, UA1, NoBody),
      Req(Attacker, "TRACE", PathClimb, UA1, NoBody),
      Req(Attacker, "GET", PathStatus, UAInjected, NoBody),
      Req(Attacker, "GET", PathClimb, UAInjected, NoBody),
      Req(Attacker, "GET", PathRoot, UAInjected, NoBody),
      [Req(Attacker, "GET", PathStatus, UA1, NoBody) EXCEPT !.ctype = TypeInjected],
      [Req(Attacker, "GET", PathStatus, UA1, NoBody) EXCEPT !.other = UAInjected],
      [Req(Attacker, "POST", PathStatus, UA1, NoBody) EXCEPT
           !.clen = PayloadMaxBytes + 1, !.ctype = TypeJson],
      [Req(Attacker, "PUT", PathStatus, UA1, NoBody)
          EXCEPT !.clen = PayloadMaxBytes + 1, !.ctype = TypeText],
      [Req(Attacker, "POST", PathStatus, UA1, JsonBody(Nest(PayloadMaxDepth + 1)))
          EXCEPT !.ctype = TypeForm],
      Req(Attacker, "HEAD", PathStatus, UA1, NoBody),
      Req(Attacker, "OPTIONS", PathStatus, UA1, NoBody),
      Req(Attacker, "POST", PathAppeals, UA1, NoBody),
      Req(Attacker, "POST", PathStatus, UAInjected, JsonBody(Nest(PayloadMaxDepth + 1))),
      [Req(Attacker, "POST", PathStatus, UA1, JsonBody(Nest(PayloadMaxDepth + 1))) EXCEPT !.sql = TRUE],
      [Req(Attacker, "POST", PathStatus, UA1, JsonBody(Nest(PayloadMaxDepth))) EXCEPT !.sql = TRUE],
      [Req(Attacker, "GET", PathStatus, UA1, NoBody) EXCEPT !.xss = TRUE],
      [Req(Attacker, "GET", PathStatus, UA1, NoBody) EXCEPT !.cf = Victim],
      [Req(Attacker, "GET", PathStatus, UA1, NoBody) EXCEPT !.cf = <<>>],
      [Req(Attacker, "GET", PathStatus, UA1, NoBody) EXCEPT !.xff = <<>>],
      [Req(Attacker, "GET", PathStatus, UA1, NoBody)
          EXCEPT !.xff = Xff(<<Entry(Victim, FALSE), Entry(Proxy, TRUE)>>)],
      [Req(Attacker, "TRACE", PathStatus, UA1, NoBody) EXCEPT !.cf = Victim],
      [Req(Proxy, "GET", PathStatus, UA1, NoBody) EXCEPT !.cf = Victim],
      [Req(Edge, "GET", PathStatus, UA1, NoBody) EXCEPT !.cf = VictimInjected],
      [Req(Proxy, "TRACE", PathStatus, UA1, NoBody)
          EXCEPT !.xff = Xff(<<Entry(Victim, FALSE), Entry(Proxy, TRUE)>>)],
      Req(Absent, "GET", PathStatus, UA1, NoBody),
      [Req(Absent, "TRACE", PathStatus, UA1, NoBody) EXCEPT !.cf = Victim] }
        \cup { Req(Attacker, "POST", PathStatus, UA1, b) : b \in DetectBodies }
        \cup { Req(Attacker, "PUT", PathStatus, UA1, JsonBody(Nest(PayloadMaxDepth + 1))),
               Req(Attacker, "PATCH", PathStatus, UA1, JsonBody(NestEmpty(PayloadMaxDepth))) }
        \cup { Req(Attacker, "POST", PathStatus, UA1, b) : b \in KeyedBodies }
        \cup { [Req(Attacker, "POST", PathStatus, UA1, b) EXCEPT !.ctype = TypeForm] :
                   b \in FormBodies }

DetectRequest == \E req \in DetectCatalogue : Sequential(req, MaxDetectReq)

\* a banned client waits long enough for the longest detector ban to run out
DetectTick ==
    /\ Handlers = {}
    /\ \E o \in DOMAIN ledger : LedgerLive(o)
    /\ Tick(HeaderMinutes * MsPerMinute + 1, MaxTicks)

NextDetect == DetectRequest \/ Answering \/ DetectTick \/ Sweep

SpecDetect == Init /\ [][NextDetect]_vars

\* The bot specification: one client sends API requests at a quick pace,
\* repeating a signature or not, changing its user-agent or not, and pauses.
BotCatalogue ==
    { Req(Attacker, "GET", p, ua, NoBody) :
          p \in {PathStatus, FreshPath(FreshSent + 1)}, ua \in {UA1, UA2} }

BotRequest ==
    /\ ~LedgerLive(Attacker)
    /\ \E req \in BotCatalogue : Sequential(req, MaxBotReq)

\* the client pauses for the rest of the flood window, or until its tracking
\* record is due for collection
BotPause ==
    /\ Handlers = {}
    /\ Attacker \in DOMAIN tracking
    /\ \E d \in {FloodWindowMs + 1, TrackingGcMs + 1} : Tick(d, MaxTicks)

NextBot == BotRequest \/ Answering \/ BotPause \/ Sweep

SpecBot == Init /\ [][NextBot]_vars

\* The timeout specification: a request waits, in what is registered after
\* requestTimeout, for Redis to take a ban or for the captcha service, while
\* the timeout of its socket runs; the handler goes on when its wait is over.
\* One of the requests declares a body of a type no parser reads, which is
\* slow to arrive.
AppealBody(userId, reasonLen, token) ==
    [NoBody EXCEPT
        !.appeal = [userId |-> userId, denialDate |-> TRUE,
                    reasonLen |-> reasonLen, captchaToken |-> token],
        !.json = Object(<< <<"u","s","e","r","I","d">>,
                           <<"d","e","n","i","a","l","D","a","t","e">>,
                           <<"a","p","p","e","a","l","R","e","a","s","o","n">> >>
                            \o (IF token THEN << <<"c","a","p","t","c","h","a","T","o","k","e","n">> >>
                                ELSE <<>>),
                        <<Str(userId), Str(<<"2","0","2","4">>), Letters(reasonLen)>>
                            \o (IF token THEN <<Str(<<"t","o","k">>)>> ELSE <<>>))]

DiscordUser == <<"1","2","3","4","5","6","7","8","9","0","1","2","3","4","5","6","7","8">>

TimeoutCatalogue ==
    { Req(Attacker, "GET", PathStatus, UA1, NoBody),
      Req(Attacker, "GET", PathSwagger, UA1, NoBody),
      [Req(Attacker, "POST", PathSwagger, UA1, NoBody) EXCEPT
           !.clen = BodyBytes, !.ctype = TypeText],
      Req(Attacker, "POST", PathAppeals, UA1, AppealBody(DiscordUser, ReasonMinLen, TRUE)) }

TimeoutRequest == \E req \in TimeoutCatalogue : Sequential(req, MaxTimeoutReq)

\* a wait is over; a handler that answers after the 408 ends the process or not
Finishing ==
    \E i \in 1..Len(inflight), ok \in BOOLEAN, crash \in BOOLEAN :
        Settle(i, FALSE, ok, crash)

Expiring == \E i \in 1..Len(inflight) : Deadline(i)

Receiving == \E i \in 1..Len(inflight), last \in BOOLEAN : Receive(i, last, MaxTicks)

NextTimeout == TimeoutRequest \/ Finishing \/ AwaitDeadline \/ Expiring \/ Receiving

SpecTimeout == Init /\ [][NextTimeout]_vars

\* The burst specification: one client sends API requests in rapid succession,
\* repeating a request or not, with one user-agent or another, with a method
\* the server accepts or not, and goes on sending when it is banned.
RapidCatalogue ==
    IF LedgerLive(Attacker)
    THEN { Req(Attacker, "GET", PathStatus, UA1, NoBody) }
    ELSE { Req(Attacker, "GET", FreshPath(FreshSent + 1), UA1, NoBody),
           Req(Attacker, "GET", PathStatus, UA1, NoBody),
           Req(Attacker, "GET", PathStatus, UA2, NoBody),
           Req(Attacker, "TRACE", PathStatus, UA1, NoBody) }

RapidRequest == \E req \in RapidCatalogue : Sequential(req, MaxRapidReq)

\* a pause that keeps the burst within the flood window
RapidPause ==
    /\ Handlers = {}
    /\ Attacker \in DOMAIN tracking
    /\ tracking[Attacker].count = FloodLimit
    /\ Tick(FloodSpanMs, MaxFloodTicks)

NextRapid == RapidRequest \/ Answering \/ RapidPause

SpecRapid == Init /\ [][NextRapid]_vars

\* The proxy specification: requests arrive over a trusted proxy, the machine
\* itself or an address of the Cloudflare ranges, carrying cf-connecting-ip or
\* not, empty or not, and x-forwarded-for or not, empty, blank in its first
\* entry, or naming a chain of addresses.
ProxyPeers == {Proxy, Edge, Edge6}

ProxyCf == {Absent, <<>>, Victim}

ProxyXff == { Absent, <<>>,
              Xff(<<Entry(Attacker, TRUE), Entry(Victim, FALSE)>>),
              Xff(<<Entry(<<>>, TRUE), Entry(Victim, FALSE)>>) }

ProxyCatalogue ==
    { [Req(peer, m, PathStatus, UA1, NoBody) EXCEPT !.cf = cf, !.xff = xff] :
          peer \in ProxyPeers, m \in {"GET", "TRACE"}, cf \in ProxyCf, xff \in ProxyXff }

ProxyRequest == \E req \in ProxyCatalogue : Sequential(req, MaxProxyReq)

NextProxy == ProxyRequest \/ Answering

SpecProxy == Init /\ [][NextProxy]_vars

\* The window specification: one client sends API requests, each to a path it
\* has not asked for before, and pauses: first for most of the flood window,
\* then for what is left of it and a millisecond more.
WindowRestMs == FloodWindowMs + 1 - FloodSpanMs

WindowRequest ==
    /\ ~LedgerLive(Attacker)
    /\ Sequential(Req(Attacker, "GET", FreshPath(FreshSent + 1), UA1, NoBody), MaxWindowReq)

WindowPause ==
    /\ Handlers = {}
    /\ Attacker \in DOMAIN tracking
    /\ Tick(IF nticks = 0 THEN FloodSpanMs ELSE WindowRestMs, MaxWindowTicks)

NextWindow == WindowRequest \/ Answering \/ WindowPause

SpecWindow == Init /\ [][NextWindow]_vars

\* The fingerprint specification: one client sends API requests, repeating a
\* path or not, with a short user-agent or one as long as browsers send, and
\* with one accept-language or another.
UALong == [i \in 1..FingerprintBytes |-> "M"]

LangEn == <<"e","n">>

LangFr == <<"f","r">>

PrintCatalogue ==
    { [Req(Attacker, "GET", p, ua, NoBody) EXCEPT !.al = al] :
          p \in {PathStatus, FreshPath(FreshSent + 1)},
          ua \in {UA1, UALong}, al \in {LangEn, LangFr} }

PrintRequest == \E req \in PrintCatalogue : Sequential(req, MaxPrintReq)

NextPrint == PrintRequest \/ Answering

SpecPrint == Init /\ [][NextPrint]_vars

\* The detached-write specification. headerValidation calls blockIP without
\* awaiting it: with a Redis client the 400 is sent while redis.setex is still
\* pending, and the write settles at some later step; without one, the
\* record is in the map before the response. Every other detector awaits
\* blockIP.
\* The client sends its next request when the last one is answered.
DetachedCatalogue ==
    { Req(Attacker, "GET", PathStatus, UA1, NoBody),
      Req(Attacker, "GET", PathStatus, UAInjected, NoBody),
      Req(Attacker, "TRACE", PathStatus, UA1, NoBody),
      Req(Attacker, "GET", PathSwagger, UA1, NoBody) }

DetachedRequest == \E req \in DetachedCatalogue : Sequential(req, MaxDetachedReq)

NextDetached == DetachedRequest \/ Answering

SpecDetached == Init /\ [][NextDetached]_vars

\* The race specification: requests of one origin are in flight at once.
\* The ban gate awaits the ban check, a round trip with a Redis client and a
\* microtask without one, so a request can be past the check, on its way to
\* httpMethodValidation, while another request of the origin is handled;
\* time passes while they wait for Redis.
RaceRequest == \E req \in DetachedCatalogue : Concurrent(req, MaxDetachedReq)

RaceTick == Tick(MsPerMinute, MaxTicks)

NextRace == RaceRequest \/ Answering \/ RaceTick

SpecRace == Init /\ [][NextRace]_vars

\* The ban specification: the bursts of the flood specification, and before
\* them one request that a detector other than the counters bans for: a
\* honeypot path, an invalid method, a climbing path, an injected header, an
\* oversized body, a deeply nested body.
BanCatalogue ==
    { Req(Attacker, "GET", PathSwagger, UA1, NoBody),
      Req(Attacker, "TRACE", PathStatus, UA1, NoBody),
      Req(Attacker, "GET", PathClimb, UA1, NoBody),
      Req(Attacker, "GET", PathStatus, UAInjected, NoBody),
      [Req(Attacker, "PUT", PathStatus, UA1, NoBody) EXCEPT
           !.clen = PayloadMaxBytes + 1, !.ctype = TypeText],
      Req(Attacker, "POST", PathStatus, UA1, JsonBody(Nest(PayloadMaxDepth + 1))) }

BanProbe ==
    /\ Clear(Attacker)
    /\ \E req \in BanCatalogue : Sequential(req, MaxFloodReq)

NextBan ==
    BanProbe \/ FloodRequest \/ Answering \/ FloodPause \/ FloodWait \/ Sweep

SpecBan == Init /\ [][NextBan]_vars

\* The appeal specification: appeals with and without their fields, with a
\* captcha the service accepts, refuses or cannot be asked about, the captcha
\* secret configured or not.
AppealCatalogue ==
    { Req(Attacker, "POST", PathAppeals, UA1, NoBody),
      Req(Attacker, "POST", PathAppeals, UA1, JsonBody(Obj(<<Leaf>>))),
      Req(Attacker, "POST", PathAppeals, UA1, AppealBody(UA1, ReasonMinLen, TRUE)),
      Req(Attacker, "POST", PathAppeals, UA1, AppealBody(DiscordUser, ReasonMinLen - 1, TRUE)),
      Req(Attacker, "POST", PathAppeals, UA1, AppealBody(DiscordUser, ReasonMaxLen + 1, TRUE)),
      Req(Attacker, "POST", PathAppeals, UA1, AppealBody(DiscordUser, ReasonMaxLen, FALSE)),
      Req(Attacker, "POST", PathAppeals, UA1, AppealBody(DiscordUser, ReasonMaxLen, TRUE)),
      Req(Attacker, "GET", PathAppeals, UA1, NoBody) }

AppealRequest == \E req \in AppealCatalogue : Sequential(req, MaxAppealReq)

Verifying ==
    \E i \in 1..Len(inflight), f \in BOOLEAN, ok \in BOOLEAN : Settle(i, f, ok, FALSE)

NextAppeal == AppealRequest \/ Verifying

SpecAppeal == InitKey /\ [][NextAppeal]_vars

\* The limiter specification: one client sends API requests, each to a path
\* it has not asked for before, FloodLimit at a time with a pause that lets
\* the flood window run out, until the limiters slow it down and stop it.
LimitRequest ==
    Sequential(Req(Attacker, "GET", FreshPath(FreshSent + 1), UA1, NoBody), MaxLimitReq)

LimitPause ==
    /\ Handlers = {}
    /\ Attacker \in DOMAIN tracking
    /\ tracking[Attacker].count = FloodLimit
    /\ Tick(FloodWindowMs + 1, MaxLimitTicks)

NextLimit == LimitRequest \/ Answering \/ LimitPause \/ AwaitTimer

SpecLimit == Init /\ [][NextLimit]_vars

----------------------------------------------------------------------------
(* Claims *)

\* the step sends the response to a request
Handled == nreq' = nreq + 1

\* the origin of the request the step answers
Sender == getClientIp(resp'.req)

\* the request the step answers got as far as ipBlockingMiddleware
ReachedGate == Len(resp'.ran) >= 2 /\ resp'.ran[2] = "gate"

\* the ban check, made now, with Redis answering (f = FALSE) or throwing
BanCheck(o, f) ==
    IF redisOn
    THEN isIPBlockedRedis(Ctx(NewLocal, GetOp(o), f, RedisGet(redisStore, RedisKey(o))),
                          o).loc.flag
    ELSE isIPBlockedMemory(Ctx(NewLocal, NoOp, FALSE, 0), o).loc.flag

\* the stores that hold a record for the origin that has not run out
LiveRecords(o) ==
    {s \in {"redis"} : RedisGet(redisStore, o) # 0}
        \cup {s \in {"memory"} : o \in DOMAIN blocked /\ now < blocked[o]}

RecordExpiry(o, s) == IF s = "redis" THEN RedisGet(redisStore, o) ELSE blocked[o]

\* when the gate had its answer for the request, the latest ban of its origin
\* was live and its record was in Redis or in the map of the running process
GateBanLive(r) ==
    /\ r.gate.live
    /\ (r.gate.ban.store = "redis" \/ r.gate.ban.epoch = r.gate.epoch)

\* a ban of the origin had not run out when the request arrived nor when the
\* gate had its answer: a ban issued since the last unblockIP call that Redis
\* has taken or that went to the map of the running process
BannedAtGate(r) ==
    /\ r.seen.at < r.seen.ban.far
    /\ r.gate.at < r.gate.ban.far

GateShortCircuit ==
    (Handled /\ ReachedGate /\ BannedAtGate(resp'))
        => /\ resp'.status = 403
           /\ resp'.by = "gate"
           /\ resp'.retry >= 0
           /\ resp'.ran = <<"trust", "gate">>
           /\ resp'.calls = <<>>
           /\ resp'.touched = {}
           /\ tracking' = tracking
           /\ patterns' = patterns

\* C1: while an origin has a live ban, every request of that origin that
\* reaches ipBlockingMiddleware is answered 403 with a retryAfter field, no
\* middleware after the gate runs for it, no ban is issued, and the tracking
\* records and the recent-signature entries are left as they were.
C1_BannedRequestShortCircuits == [][GateShortCircuit]_vars

\* C2: in Redis mode, once blockIP has written a ban to Redis and returned,
\* the ban check says banned on every call until the ban has run out, Redis
\* answering the call or not, whichever process makes it, a process started
\* after the write included.
C2_RedisBanSeenByEveryProcess ==
    redisOn =>
        \A o \in DOMAIN ledger :
            now < ledger[o].farBack => \A f \in BOOLEAN : BanCheck(o, f)

\* the path a check of the ban takes in the process that issued it: Redis
\* answering for a record in Redis, Redis throwing for a record that fell
\* back to the map
ReadThrows(o) == ledger[o].store = "memory" /\ redisOn

\* C3: for the latest ban of an origin, not followed by an unban, the ban
\* check of the issuing process is true at every instant before the time of
\* the ban plus its duration and false from that instant on, in the
\* in-process mode, the Redis mode and the Redis-error fallback path.
C3_BannedExactlyUntilExpiry ==
    \A o \in DOMAIN ledger :
        ledger[o].epoch = epoch =>
            (BanCheck(o, ReadThrows(o)) <=> now < ledger[o].until)

BanNeverLost ==
    (Handled /\ ReachedGate /\ resp'.seen.live /\ GateBanLive(resp'))
        => resp'.by = "gate"

\* C4: whatever Redis calls fail, once blockIP has returned for an origin,
\* every request of that origin that arrives later and reaches the gate
\* before the ban has run out, the record being in Redis or in the map of the
\* running process, is rejected by the gate.
C4_BanWriteNeverLost == [][BanNeverLost]_vars

\* C5: no origin ever has two live records, the Redis store and the in-memory
\* map counted together, and while the latest ban of an origin is live in the
\* process that issued it there is exactly one, expiring at the time of that
\* blockIP call plus its duration.
C5_OneLiveRecord ==
    \A o \in DOMAIN ledger :
        /\ Cardinality(LiveRecords(o)) <= 1
        /\ (LedgerLive(o) /\ ledger[o].epoch = epoch) =>
               /\ LiveRecords(o) # {}
               /\ \A s \in LiveRecords(o) : RecordExpiry(o, s) = ledger[o].until

\* C6: a request for a path of the honeypot catalogue, whatever its method,
\* that the ban gate lets through is answered 404 and makes exactly one
\* blockIP call, of 1440 minutes.
C6_HoneypotAlways404 ==
    (resp.req.path \in honeypotPaths /\ resp.status # 0 /\ resp.by # "gate") =>
        /\ resp.status = 404
        /\ Len(resp.calls) = 1
        /\ resp.calls[1].min = HoneypotMinutes

GetSwagger(req) == req.method = "GET" /\ req.path = PathSwagger

\* the request the step answers arrived after the latest response was sent,
\* to the same origin and by the same process
NextOfOrigin ==
    /\ Sender = getClientIp(resp.req)
    /\ resp'.id > resp.upto
    /\ resp.epoch = epoch

HoneypotThenGate ==
    Handled =>
        /\ (GetSwagger(resp'.req) /\ resp'.seen.clear /\ resp'.gate.clear) =>
               /\ resp'.status = 404
               /\ resp'.by = "honeypot"
        /\ (/\ GetSwagger(resp.req)
            /\ resp.by = "honeypot"
            /\ NextOfOrigin
            /\ resp'.gate.live
            /\ LedgerLive(Sender)) =>
               /\ resp'.status = 403
               /\ resp'.retry = CeilMinutes(ledger[Sender].until - now)
               /\ (now - ledger[Sender].at < MsPerMinute => resp'.retry = HoneypotMinutes)

\* C7: GET /api/swagger from a clear origin is answered 404, and the next
\* request of that origin, to any path, while the ban lasts is answered 403
\* with retryAfter the minutes of the ban that remain, rounded up: 1440 within
\* the first minute after the honeypot hit.
C7_HoneypotHitThenForbidden == [][HoneypotThenGate]_vars

\* the request the step answers belongs to a run of API requests that began
\* with the origin clear and has lasted no longer than FloodSpanMs
InSpan(o) == o \in DOMAIN burst' /\ now - burst'[o].start <= FloodSpanMs

FloodVerdict(o) ==
    /\ burst'[o].n <= FloodLimit => resp'.status = 200
    /\ burst'[o].n = FloodLimit + 1 =>
           /\ resp'.status = 429
           /\ Len(resp'.bans) = 1
           /\ resp'.bans[1].ip = o

FloodThreshold ==
    (Handled /\ IsApiPath(resp'.req.path) /\ InSpan(Sender) /\ burst'[Sender].clean) =>
        /\ FloodVerdict(Sender)
        /\ burst'[Sender].n = FloodLimit + 1 =>
               /\ resp'.by = "flood"
               /\ resp'.bans[1].min = FloodStepMinutes

\* C8 (amended): for an initially clear origin sending, within a span of 9
\* seconds, API requests that no other check objects to, no two of the same
\* signature less than 1000 ms apart and all with the same fingerprint
\* headers, the first 30 are let through and the 31st is answered 429 by
\* flood detection with a ban of 30 minutes recorded for the origin.
C8_FloodThreshold == [][FloodThreshold]_vars

\* the 31st request of such a run, 9 seconds after the first, got the 429
C8_Witness ==
    /\ Attacker \in DOMAIN burst
    /\ burst[Attacker].clean
    /\ burst[Attacker].n = FloodLimit + 1
    /\ now - burst[Attacker].start = FloodSpanMs
    /\ resp.status = 429
    /\ resp.by = "flood"

FloodThresholdAnyRequests ==
    (Handled /\ IsApiPath(resp'.req.path) /\ InSpan(Sender)) => FloodVerdict(Sender)

\* C8 as stated: for an initially clear origin sending API requests within a
\* span of 9 seconds, the first 30 are let through and the 31st is answered
\* 429 with a ban recorded for the origin.
C8_AsStated == [][FloodThresholdAnyRequests]_vars

FloodEscalates ==
    (Handled /\ resp'.by = "flood" /\ burst'[Sender].clean) =>
        resp'.bans[1].min = Min2(floodHits'[Sender] * FloodStepMinutes, FloodCapMinutes)

\* C9: the k-th flood detection in succession for an origin that trips no
\* other check, each after the previous ban has run out, bans it for
\* min(k * 30, 1440) minutes.
C9_FloodBanEscalates == [][FloodEscalates]_vars

\* redis.del for the origin has been sent and is not answered yet
Unblocking(ip) == \E i \in 1..Len(inflight') : inflight'[i].op = DelOp(ip)

UnblockAnswer ==
    (Handled /\ resp'.by = "unblock" /\ resp'.status = 200) =>
        /\ resp'.success = (LiveRecords(BodyOf(resp'.req).ip) # {})
        /\ BodyOf(resp'.req).ip \notin DOMAIN blocked' \/ Unblocking(BodyOf(resp'.req).ip)
        /\ RedisGet(redisStore', BodyOf(resp'.req).ip) = 0 \/ Unblocking(BodyOf(resp'.req).ip)

\* C10: POST /api/security/unblock with the right admin key answers success
\* = true exactly when a live ban record existed for the named origin, and
\* leaves no ban record for it in either store once the removal it has asked
\* for is carried out.
C10_UnblockReportsWhetherBanned == [][UnblockAnswer]_vars

\* the key of the request is missing, or is not the configured secret
BadKey(req) == BodyOf(req).adminKey = Undef \/ BodyOf(req).adminKey # adminKeyEnv

UnblockRefused ==
    (/\ Handled
     /\ resp'.req.method = "POST"
     /\ RouteMatches(resp'.req.path, PathUnblock)
     /\ Did(resp'.ran, "unblock")
     /\ BadKey(resp'.req)) =>
        /\ resp'.status = 403
        /\ resp'.unbans = <<>>
        /\ blocked' = blocked
        /\ redisStore' = redisStore

\* C11: POST /api/security/unblock that reaches its route with a wrong or a
\* missing adminKey is answered 403, calls unblockIP for no origin and leaves
\* the ban records of both stores as they were, whether the admin secret is
\* configured or unset.
C11_BadKeyRefused == [][UnblockRefused]_vars

\* the request carries a forwarded-address header, whatever its value
CarriesForwarded(req) == req.cf # Absent \/ req.xff # Absent

\* the request carries a forwarded-address header with a non-empty value
NamesForwarded(req) == Truthy(req.cf) \/ Truthy(req.xff)

\* the same request without its forwarded-address headers
Stripped(req) == [req EXCEPT !.cf = Absent, !.xff = Absent]

KeyedByPeer ==
    (Handled /\ ~isCloudflareIP(RemoteIp(resp'.req))) =>
        /\ Sender = RemoteIp(resp'.req)
        /\ Sender = getClientIp(Stripped(resp'.req))
        /\ \A i \in 1..Len(resp'.calls) : resp'.calls[i].ip = RemoteIp(resp'.req)
        /\ DOMAIN tracking' \subseteq DOMAIN tracking \cup {RemoteIp(resp'.req)}

RejectedAtTrust ==
    /\ resp'.status = 403
    /\ resp'.by = "trust"
    /\ resp'.ran = <<"trust">>
    /\ resp'.calls = <<>>
    /\ resp'.touched = {}
    /\ <<blocked', redisStore', tracking', patterns'>> = <<blocked, redisStore, tracking, patterns>>

SpoofRejected ==
    (Handled /\ ~isCloudflareIP(RemoteIp(resp'.req)) /\ NamesForwarded(resp'.req))
        => RejectedAtTrust

\* C12: a request whose peer address is not a trusted-proxy address is keyed
\* by the peer address as the code reads it (remoteAddress || 'unknown')
\* whatever its cf-connecting-ip and x-forwarded-for headers say (it is keyed
\* as the same request without them, its bans and its tracking record are
\* the peer's), and when one of those headers has a
\* non-empty value trustCloudflareProxy answers 403 before any detector runs,
\* with no ban and no change to the ban stores, the tracking records or the
\* recent signatures.
C12_PeerKeyedAndSpoofRejected == [][KeyedByPeer /\ SpoofRejected]_vars

\* a spoofed header naming another address has been refused at the first
\* middleware, and nothing is recorded against the named address
C12_Witness ==
    /\ resp.by = "trust"
    /\ resp.status = 403
    /\ resp.req.remote = Attacker
    /\ resp.req.cf = Victim
    /\ Victim \notin DOMAIN ledger
    /\ Victim \notin DOMAIN tracking

AnyForwardedRejected ==
    (Handled /\ ~isCloudflareIP(RemoteIp(resp'.req)) /\ CarriesForwarded(resp'.req))
        => RejectedAtTrust

\* C12 as stated: every request of an untrusted peer that carries one of the
\* two headers, an empty one included, is answered 403 by trustCloudflareProxy.
C12_AsStated == [][KeyedByPeer /\ AnyForwardedRejected]_vars

Listed(o) == \E e \in getBlockedIPs : e.ip = o

\* C13: an origin is in the list getBlockedIPs returns exactly when the ban
\* check for it answers banned, and the entry carries the expiry of the
\* origin's record, with Redis configured as well as without.
C13_ListIsLiveBans ==
    \A o \in DOMAIN ledger \cup DOMAIN blocked :
        /\ Listed(o) <=> BanCheck(o, FALSE)
        /\ \A e \in getBlockedIPs : e.ip = o =>
              \E s \in LiveRecords(o) : e.expiresAt = RecordExpiry(o, s)

\* the order of the detectors as the claim gives it (the timeout guard, which
\* only arms a timer, answers nothing while the chain runs)
ClaimedOrder ==
    <<"method", "traversal", "header", "flood", "rapid",
      "fingerprint", "payload", "suspicious">>

\* the origin and the minutes of each blockIP call
Asked(calls) == [i \in 1..Len(calls) |-> <<calls[i].ip, calls[i].min>>]

\* the detectors that, running alone on the present state, reject the request
Violated(req) == {i \in 1..Len(ClaimedOrder) : Alone(ClaimedOrder[i], req).loc.done}

FirstViolated(req) ==
    ClaimedOrder[CHOOSE i \in Violated(req) : \A j \in Violated(req) : i <= j]

ClaimedOrderWins ==
    (/\ Handled
     /\ resp'.by \notin {"trust", "gate"}
     /\ Cardinality(Violated(resp'.req)) >= 2) =>
        /\ resp'.by = FirstViolated(resp'.req)
        /\ resp'.status = Alone(FirstViolated(resp'.req), resp'.req).loc.status
        /\ Asked(resp'.calls) = Asked(Alone(FirstViolated(resp'.req), resp'.req).loc.calls)

\* C14: a request the ban gate lets through that two detectors object to is
\* answered, and its origin banned, by the one that comes first in the order
\* method, traversal, header injection, flood, rapid repeat, fingerprint
\* anomaly, payload shape, suspicious content.
C14_ClaimedOrder == [][ClaimedOrderWins]_vars

\* the middlewares in the order they are registered, and those of them that
\* can reject a request: mongoSanitize and hpp rewrite the body and the speed
\* limiter delays
Detectors == SubSeq(MiddlewareOrder, 1, Len(MiddlewareOrder) - 1)

DetectorNames == {Detectors[i] : i \in 1..Len(Detectors)} \ {"sanitize", "hpp", "slow"}

\* the statuses each detector answers with
RejectStatus(name) ==
    CASE name \in {"trust", "gate", "fingerprint"} -> {403}
      [] name = "method" -> {405}
      [] name \in {"traversal", "header", "suspicious"} -> {400}
      [] name = "parser" -> {413}
      [] name = "payload" -> {400, 413}
      [] name = "timeout" -> {408}
      [] name \in {"flood", "rapid", "rate"} -> {429}

\* the detectors that write the tracking records and the recent signatures
Counting == {"flood", "rapid", "fingerprint"}

Position(name) == CHOOSE i \in 1..Len(Detectors) : Detectors[i] = name

\* the detectors that answer in the turn in which they run; the timeout guard
\* answers from the callback it has registered
Inline == DetectorNames \ {"timeout"}

\* the step in which a detector or the honeypot route, having awaited its
\* ban, comes to send its rejection for a request that has been answered
RejectsAgain ==
    /\ epoch' = epoch
    /\ \E i \in 1..Len(inflight) :
          /\ ~inflight[i].detached
          /\ inflight[i].loc.answered
          /\ inflight[i].loc.by \in DetectorNames \cup {"honeypot"}
          /\ inflight[i].hop > 0
          /\ inflight[i].hop = Hops(inflight[i])
          /\ \A j \in 1..Len(inflight') :
                inflight'[j].loc.id = inflight[i].loc.id => inflight'[j].detached

FirstRejectionWins ==
    /\ (Handled /\ resp'.by \in DetectorNames) =>
          /\ resp'.by \in Inline => resp'.ran = SubSeq(Detectors, 1, Position(resp'.by))
          /\ resp'.status \in RejectStatus(resp'.by)
          /\ Len(resp'.calls) <= 1
          /\ Len(resp'.bans) <= 1
          /\ (resp'.by \in Inline /\ \A n \in Counting : Position(resp'.by) < Position(n))
                => (resp'.touched \cap {"tracking", "patterns"} = {})
          /\ (resp'.by \in Inline /\ Position(resp'.by) < Position("rapid"))
                => "patterns" \notin resp'.touched
          /\ (resp'.by \in Inline /\ Position(resp'.by) < Position("slow"))
                => limits' = limits
    /\ ~RejectsAgain

\* C15: a request that a detector rejects is rejected by that detector alone:
\* the middlewares that ran for it are those registered up to the rejecting
\* one, the status is the rejecting detector's, at most one ban is issued, by
\* the detector that rejects, no detector registered after it touches the
\* tracking records, the recent signatures or the counters of the limiters,
\* and once the rejection has gone out no other detector comes to reject the
\* request.
C15_FirstRejectionWins == [][FirstRejectionWins]_vars

\* the middlewares and routes that ban the origin they reject
Banning == {"method", "traversal", "payload", "header", "flood", "rapid",
            "fingerprint", "honeypot"}

\* the ban is where blockIP says it put it
Stored(ban) ==
    IF ban.store = "redis"
    THEN RedisGet(redisStore', ban.ip) = ban.at + ban.min * MsPerMinute
    ELSE ban.ip \in DOMAIN blocked' /\ blocked'[ban.ip] = ban.at + ban.min * MsPerMinute

\* blockIP returns in this step, the redis.setex of its ban having thrown
Recovers(i) ==
    /\ inflight[i].op.kind = "setex"
    /\ inflight[i].threw
    /\ inflight[i].hop = 2
    /\ epoch' = epoch
    /\ \A j \in 1..Len(inflight') : inflight'[j] # inflight[i]

\* the ban of a blockIP call whose redis.setex threw is in the map when the
\* call returns
FallsBack ==
    \A i \in 1..Len(inflight) :
        Recovers(i) =>
            /\ inflight[i].op.arg \in DOMAIN blocked'
            /\ blocked'[inflight[i].op.arg] = now + inflight[i].op.min * MsPerMinute

\* redis.del for the origin throws in this step
DelThrows(o) ==
    /\ faultsUsed' > faultsUsed
    /\ epoch' = epoch
    /\ \E i \in 1..Len(inflight) : inflight[i].op = DelOp(o)
    /\ \A i \in 1..Len(inflight') : inflight'[i].op # DelOp(o)

ServedDespiteFailure ==
    /\ (Handled /\ resp'.faults > 0) =>
          /\ resp'.status \in {200, 400, 403, 404, 405, 413, 429}
          /\ ReachedGate
          /\ resp'.by = "gate" => (resp'.gate.redis # 0 \/ resp'.gate.memory # 0)
          /\ resp'.by # "gate" =>
                /\ Len(resp'.ran) > 2
                /\ (resp'.gate.redis = 0 \/ resp'.gate.memory = 0)
          /\ resp'.by \in Banning =>
                /\ Len(resp'.calls) = 1
                /\ Len(resp'.bans) = 1
    /\ FallsBack
    /\ \A o \in ScenarioPeers : DelThrows(o) => o \notin DOMAIN blocked'

RECURSIVE Ends(_, _)
Ends(v, d) ==
    IF v.leaf \/ Len(v.kids) = 0 THEN {d}
    ELSE UNION {Ends(v.kids[i], d + 1) : i \in 1..Len(v.kids)}

Nesting(v) == CHOOSE d \in Ends(v, 0) : \A e \in Ends(v, 0) : e <= d

ReachedPayload ==
    /\ resp'.req.method \in {"POST", "PUT", "PATCH"}
    /\ Did(resp'.ran, "payload")

DepthBoundary ==
    (Handled /\ ReachedPayload) =>
        /\ getObjectDepth(BodyOf(resp'.req).json, 0) = Nesting(BodyOf(resp'.req).json)
        /\ Nesting(BodyOf(resp'.req).json) = PayloadMaxDepth + 1 =>
              /\ resp'.status = 400
              /\ resp'.by = "payload"
              /\ Len(resp'.bans) = 1
              /\ resp'.bans[1].ip = Sender
              /\ resp'.bans[1].min = PayloadDepthMinutes
              /\ Stored(resp'.bans[1])
        /\ Nesting(BodyOf(resp'.req).json) = PayloadMaxDepth =>
              /\ resp'.by # "payload"
              /\ Did(resp'.ran, "header")

\* C17: a POST, PUT or PATCH request that reaches payload validation with a
\* parsed body nested to depth 11 is answered 400 by it and its origin banned
\* 60 minutes, and one with a body nested to depth 10 passes payload
\* validation on to the next middleware; the depth getObjectDepth computes is
\* the largest ancestor count among the non-container values and the empty
\* containers.
C17_DepthBoundary == [][DepthBoundary]_vars

\* a body whose innermost, empty container has 11 ancestors has been refused
C17_Witness ==
    /\ resp.by = "payload"
    /\ resp.status = 400
    /\ BodyOf(resp.req) = JsonBody(NestEmpty(PayloadMaxDepth + 1))
    /\ getObjectDepth(BodyOf(resp.req).json, 0) = PayloadMaxDepth + 1
    /\ Len(resp.bans) = 1
    /\ resp.bans[1].min = PayloadDepthMinutes

HoneypotBypassesDetectors ==
    (Handled /\ resp'.req.path \in honeypotPaths /\ resp'.by \notin {"trust", "gate"}) =>
        /\ resp'.by \notin {"method", "traversal", "payload", "header", "flood",
                            "rapid", "fingerprint", "suspicious"}
        /\ resp'.touched \cap {"tracking", "patterns"} = {}

\* C18: a request for a honeypot path from an origin the gate lets through is
\* rejected by none of method validation, traversal, payload, header, flood,
\* rapid-repeat, fingerprint and suspicious-content detection, and leaves the
\* tracking records and the recent signatures as they were.
C18_HoneypotBypassesDetectors == [][HoneypotBypassesDetectors]_vars

ViolationsNeverDrop ==
    (epoch' = epoch /\ sweepDue' = sweepDue) =>
        \A o \in DOMAIN tracking' :
            /\ tracking'[o].count >= 0
            /\ o \in DOMAIN tracking => tracking'[o].violations >= tracking[o].violations

\* C19: in every tracking record count is never negative, and no step of a
\* request lowers the violations of a record that exists: violations only
\* grows until the sweep removes the record, a window rollover included.
C19_ViolationsNeverDrop == [][ViolationsNeverDrop]_vars

\* the origin of the request was clear when the request arrived and when the
\* ban gate had its answer
WasClear(r) == r.seen.clear /\ r.gate.clear

MethodRule ==
    (Handled /\ resp'.by # "trust") =>
        /\ (WasClear(resp') /\ resp'.req.method \notin allowedMethods) =>
              /\ resp'.status = 405
              /\ resp'.by = "method"
              /\ resp'.ran = <<"trust", "gate", "method">>
              /\ Len(resp'.bans) = 1
              /\ resp'.bans[1].ip = Sender
              /\ resp'.bans[1].min = MethodMinutes
              /\ Stored(resp'.bans[1])
        /\ resp'.req.method \in allowedMethods =>
              /\ resp'.by # "method"
              /\ resp'.by # "gate" => Did(resp'.ran, "traversal")

\* C20: a request that trustCloudflareProxy lets through, from an origin with
\* no ban record and no tracking record, with a method other than GET, POST,
\* PUT, PATCH, DELETE, HEAD and OPTIONS is answered 405 by method validation
\* and its origin is banned for 15 minutes; a request with one of those
\* methods is never answered by method validation, which passes it on to
\* traversal detection.
C20_MethodRule == [][MethodRule]_vars

\* a TRACE request of a clear origin has been answered 405 and the origin's
\* 15-minute ban is in a store
C20_Witness ==
    /\ resp.by = "method"
    /\ resp.status = 405
    /\ resp.req.method = "TRACE"
    /\ resp.req.path = PathStatus
    /\ WasClear(resp)
    /\ Asked(resp.bans) = << <<Attacker, MethodMinutes>> >>
    /\ \E s \in LiveRecords(Attacker) :
          RecordExpiry(Attacker, s) = now + MethodMinutes * MsPerMinute

\* one of the headers of the request has a CR or a LF in its value
Injected(req) == \E v \in HeaderValues(req) : HasCRLF(v)

InjectionRejected ==
    (/\ Handled
     /\ WasClear(resp')
     /\ Injected(resp'.req)
     /\ resp'.by \notin {"trust", "method", "traversal", "parser", "payload"}) =>
        /\ resp'.status = 400
        /\ resp'.by = "header"
        /\ Len(resp'.calls) = 1
        /\ resp'.calls[1].min = HeaderMinutes

\* C21: a request of a clear origin with a CR or LF in a header value, which
\* no earlier middleware rejects, is answered 400 by header validation, which
\* calls blockIP for 360 minutes, whether or not its path starts with /api.
C21_InjectionRejected == [][InjectionRejected]_vars

OversizeRejected ==
    (/\ Handled
     /\ WasClear(resp')
     /\ resp'.req.method \in {"POST", "PUT", "PATCH"}
     /\ ContentLength(resp'.req) > PayloadMaxBytes
     /\ resp'.by \notin {"trust", "method", "traversal"}) =>
        /\ resp'.status = 413
        /\ Len(resp'.bans) = 1
        /\ resp'.bans[1].ip = Sender
        /\ resp'.bans[1].min = PayloadSizeMinutes

\* C22: a POST, PUT or PATCH request of a clear origin that declares a
\* content-length over 10240 and that no earlier detector rejects is answered
\* 413 and its origin banned 30 minutes, the body parsers having run first.
C22_OversizeRejected == [][OversizeRejected]_vars

\* rapid repeats and fingerprint changes seen so far for the sender, the
\* request answered included
Repeats == burst'[Sender].repeats

Changes == burst'[Sender].changes

RapidOnItsOwnCount ==
    (Handled /\ Did(resp'.ran, "rapid") /\ IsApiPath(resp'.req.path)) =>
        /\ resp'.by = "rapid" =>
              /\ resp'.status = 429
              /\ Len(resp'.bans) = 1
              /\ resp'.bans[1].min = RapidMinutes
              /\ Repeats >= RapidLimit
        /\ (RapidHit(resp'.req) /\ Repeats > RapidLimit) => resp'.by = "rapid"

\* C23: rapidRepeatDetection answers 429 with a 60-minute ban, and only to an
\* origin that has repeated a signature within 1000 ms at least 5 times,
\* whatever else has been counted against it; and a repeat beyond the fifth
\* is always rejected by it.
C23_RapidOnItsOwnCount == [][RapidOnItsOwnCount]_vars

FingerprintOnItsOwnCount ==
    (Handled /\ Did(resp'.ran, "fingerprint") /\ IsApiPath(resp'.req.path)) =>
        /\ resp'.by = "fingerprint" =>
              /\ resp'.status = 403
              /\ Len(resp'.bans) = 1
              /\ resp'.bans[1].min = FingerprintMinutes
              /\ Changes > FingerprintLimit
        /\ (FingerprintChanged(resp'.req) /\ Changes > FingerprintLimit)
              => resp'.by = "fingerprint"

\* C24: fingerprintAnomalyDetection answers 403 with a 120-minute ban to an
\* origin whose fingerprint has changed more than 3 times while its tracking
\* record has lived, however far apart the changes, and to no origin with 3
\* changes or fewer.
C24_FingerprintOnItsOwnCount == [][FingerprintOnItsOwnCount]_vars

\* detectSuspiciousPatterns run on the request, the maps and stores being as
\* they are
RunSuspicious(req) ==
    Written(Ctx([NewLocal EXCEPT !.body = BodyOf(req)], NoOp, FALSE, 0),
            Alone("suspicious", req))

SuspiciousLeavesNoTrace ==
    (Handled /\ resp'.by = "suspicious") =>
        /\ resp'.status = 400
        /\ resp'.req.sql \/ resp'.req.xss
        /\ resp'.calls = <<>>
        /\ RunSuspicious(resp'.req) = {}
        /\ Alone("suspicious", resp'.req).lim = limits
        /\ redisStore' = redisStore
        /\ Sender \in DOMAIN blocked' =>
              (Sender \in DOMAIN blocked /\ blocked'[Sender] = blocked[Sender])

\* C25: a request answered 400 by detectSuspiciousPatterns calls blockIP for
\* no origin; detectSuspiciousPatterns writes neither the ban stores nor the
\* tracking records, the recent signatures or the counters of the limiters,
\* and no ban of the sender is created or extended by the request.
C25_SuspiciousLeavesNoTrace == [][SuspiciousLeavesNoTrace]_vars

\* a request with a script tag has been answered 400 and its sender, tracked
\* by the earlier detectors, has no ban in either store
C25_Witness ==
    /\ resp.by = "suspicious"
    /\ resp.status = 400
    /\ resp.req.xss
    /\ resp.calls = <<>>
    /\ Attacker \in DOMAIN tracking
    /\ LiveRecords(Attacker) = {}

\* the step in which the callback of requestTimeout answers a request
Expires == Handled /\ resp'.by = "timeout"

\* the step in which the timeout of a waiting request runs out and its socket
\* is closed
Closes ==
    \E i \in 1..Len(inflight) :
        /\ i <= Len(inflight')
        /\ inflight'[i].loc.id = inflight[i].loc.id
        /\ ~inflight[i].loc.closed
        /\ inflight'[i].loc.closed

\* the requests whose timeout has run out and whose handler still waits
TimedOut ==
    {i \in 1..Len(inflight) :
        ~inflight[i].detached /\ (inflight[i].loc.answered \/ inflight[i].loc.closed)}

\* the step in which an operation of such a request settles, its handler
\* goes on or more of its body arrives
GoesOnAfter408 ==
    /\ epoch' = epoch
    /\ \E i \in TimedOut : \A j \in 1..Len(inflight') : inflight'[j] # inflight[i]

\* the step in which the handler of such a request comes to send its response
SecondResponse ==
    /\ epoch' = epoch
    /\ \E i \in TimedOut :
          /\ inflight[i].hop > 0
          /\ inflight[i].hop = Hops(inflight[i])
          /\ \A j \in 1..Len(inflight') :
                inflight'[j].loc.id = inflight[i].loc.id => inflight'[j].detached

\* the step in which the callback of requestTimeout runs for a request that
\* has been answered
CallbackAgain == \E i \in Armed : inflight[i].loc.answered /\ Deadline(i)

AbandonedAfter408 ==
    /\ Closes => (Expires /\ resp'.status = 408)
    /\ Expires =>
          /\ resp'.status = 408
          /\ blocked' = blocked
          /\ redisStore' = redisStore
          /\ ledger' = ledger
    /\ GoesOnAfter408 =>
          /\ blocked' = blocked
          /\ redisStore' = redisStore
          /\ tracking' = tracking
          /\ patterns' = patterns
    /\ ~SecondResponse
    /\ ~CallbackAgain

\* C26: when the 30-second timeout of a request runs out, 408 is sent and the
\* timeout bans nobody; and what is still pending of that request's chain is
\* dropped: from then on the request writes nothing more to the ban stores,
\* the tracking records or the recent signatures, its handler does not come
\* to send a response, and the callback of the timeout does not run for it
\* again.
C26_AbandonedAfter408 == [][AbandonedAfter408]_vars

\* the request just answered completes a burst of BurstSize API requests that
\* the origin began with neither a ban nor a tracking record and sent within
\* the span
BurstDone(o) == InSpan(o) /\ burst'[o].n >= BurstSize

\* every request of the burst is one no other detector objects to, and the
\* fingerprint detector has seen no change of headers within the burst
OneBrowser(o) == burst'[o].benign /\ burst'[o].changes = 0

BurstLimited ==
    (Handled /\ BurstDone(Sender) /\ OneBrowser(Sender)) => 429 \in burst'[Sender].codes

\* C27 (amended): a burst of 35 API requests sent in rapid succession by one
\* origin that has neither a ban nor a tracking record when the burst starts,
\* each request acceptable to every other detector and all carrying the same
\* fingerprint headers, yields at least one 429 response.
C27_BurstLimited == [][BurstLimited]_vars

\* a burst of 35 identical requests has been answered 429 by the rapid
\* repeat detector without the flood limit having been reached
C27_Witness ==
    /\ Attacker \in DOMAIN burst
    /\ burst[Attacker].n >= BurstSize
    /\ burst[Attacker].benign /\ burst[Attacker].changes = 0
    /\ burst[Attacker].repeats > 0
    /\ tracking[Attacker].count < FloodLimit
    /\ 429 \in burst[Attacker].codes
    /\ now - burst[Attacker].start <= FloodSpanMs

BurstLimitedAnyRequests ==
    (Handled /\ BurstDone(Sender)) => 429 \in burst'[Sender].codes

\* C27 (as stated): a burst of 35 API requests sent in rapid succession by one
\* origin that is not banned when the burst starts yields at least one 429
\* response.
C27_AsStated == [][BurstLimitedAnyRequests]_vars

\* the left-most entry of a comma-separated list, without its blanks
LeftMost(x) ==
    LET commas == {i \in 1..Len(x) : x[i] = ","}
        end    == IF commas = {} THEN Len(x)
                  ELSE (CHOOSE i \in commas : \A j \in commas : i <= j) - 1
    IN  SelectSeq(SubSeq(x, 1, end), LAMBDA ch : ch # " ")

\* the origin the forwarded-address headers of a proxied request name: the
\* cf-connecting-ip value when it is not empty, otherwise the first entry of a
\* non-empty x-forwarded-for without its blanks, otherwise the peer
NamedOrigin(req) ==
    IF req.cf # Absent /\ req.cf # <<>> THEN req.cf
    ELSE IF req.xff # Absent /\ req.xff # <<>> THEN LeftMost(req.xff)
    ELSE req.remote

\* the same, with a header counted as present whatever its value
PresentOrigin(req) ==
    IF req.cf # Absent THEN req.cf
    ELSE IF req.xff # Absent THEN LeftMost(req.xff)
    ELSE req.remote

\* what the chain records for the request just answered is recorded for
\* origin o: the ban of a rejected request, the tracking record of an
\* admitted one
RecordedFor(o) ==
    /\ \A i \in 1..Len(resp'.calls) : resp'.calls[i].ip = o
    /\ resp'.by = "method" => (Len(resp'.bans) = 1 /\ resp'.bans[1].ip = o /\ Stored(resp'.bans[1]))
    /\ resp'.by = "app" => (o \in DOMAIN tracking' /\ tracking'[o].count > 0)
    /\ resp'.by = "gate" => (RedisGet(redisStore, o) # 0 \/ o \in DOMAIN blocked)
    /\ DOMAIN tracking' \subseteq DOMAIN tracking \cup {o}

ProxiedKeyedByNamed ==
    (Handled /\ isCloudflareIP(resp'.req.remote)) => RecordedFor(NamedOrigin(resp'.req))

\* C28 (amended): when the transport-layer source is a trusted proxy address,
\* the origin of the request (the key of its ban and of its tracking record)
\* is the cf-connecting-ip header if present and not empty, otherwise the
\* first (left-most) comma-separated entry of a non-empty x-forwarded-for with
\* surrounding whitespace trimmed, otherwise the transport address.
C28_ProxiedKeyedByNamed == [][ProxiedKeyedByNamed]_vars

\* a request that came over the proxy with no cf-connecting-ip and a chain of
\* two forwarded addresses has been banned under the first of them, and
\* neither the second nor the proxy is banned
C28_Witness ==
    /\ resp.by = "method"
    /\ resp.req.remote = Proxy
    /\ resp.req.cf = Absent
    /\ resp.req.xff = Xff(<<Entry(Attacker, TRUE), Entry(Victim, FALSE)>>)
    /\ Attacker \in DOMAIN ledger
    /\ Victim \notin DOMAIN ledger
    /\ Proxy \notin DOMAIN ledger

ProxiedKeyedByPresent ==
    (Handled /\ isCloudflareIP(resp'.req.remote)) => RecordedFor(PresentOrigin(resp'.req))

\* C28 (as stated): when the transport-layer source is a trusted proxy
\* address, the origin is the cf-connecting-ip header if present, otherwise
\* the first entry of x-forwarded-for trimmed, otherwise the transport address.
C28_AsStated == [][ProxiedKeyedByPresent]_vars

\* the requests of origin o that have passed flood detection within the ten
\* seconds up to now: their signatures are recorded with the time they passed
PassedInSpan(o) ==
    {k \in DOMAIN patterns :
        StartsWith(k, o \o <<":">>) /\ now - patterns[k] <= FloodWindowMs}

\* the request just answered reached flood detection
ReachedFlood == Did(resp'.ran, "flood") /\ IsApiPath(resp'.req.path)

RollingWindow ==
    (/\ Handled
     /\ ReachedFlood
     /\ resp'.since = now
     /\ Cardinality(PassedInSpan(Sender) \ {SignatureKey(resp'.req)}) >= FloodLimit) =>
        /\ resp'.status = 429
        /\ resp'.by = "flood"
        /\ Len(resp'.bans) = 1
        /\ resp'.bans[1].ip = Sender

\* C29: over any sequence of API requests from one origin, no more than 30
\* requests pass flood detection within any span of 10 seconds: a request that
\* reaches flood detection when 30 other requests of its origin have passed
\* within the last 10 seconds is rejected with 429 and the origin banned.
C29_RollingWindow == [][RollingWindow]_vars

\* the four headers the fingerprint is computed from
FingerprintHeaders(req) == <<req.ua, req.al, req.ae, req.accept>>

\* the request just answered and the one answered before it are consecutive
\* API requests of one origin, and both reached fingerprintAnomalyDetection
Consecutive ==
    /\ nreq > 0
    /\ getClientIp(resp.req) = Sender
    /\ resp'.id > resp.upto
    /\ IsApiPath(resp.req.path) /\ IsApiPath(resp'.req.path)
    /\ Did(resp.ran, "fingerprint") /\ Did(resp'.ran, "fingerprint")
    /\ Sender \in DOMAIN tracking

\* fingerprintAnomalyDetection counted a fingerprint change for the request
\* just answered: it added a violation (beyond the one of a rapid repeat), or
\* it rejected the request
ChangeCounted ==
    \/ resp'.by = "fingerprint"
    \/ tracking'[Sender].violations =
           tracking[Sender].violations + 1 + (IF RapidHit(resp'.req) THEN 1 ELSE 0)

FingerprintOfFourHeaders ==
    (Handled /\ Consecutive) =>
        /\ FingerprintHeaders(resp.req) # FingerprintHeaders(resp'.req) =>
              /\ generateRequestFingerprint(resp.req) # generateRequestFingerprint(resp'.req)
              /\ ChangeCounted
        /\ FingerprintHeaders(resp.req) = FingerprintHeaders(resp'.req) =>
              /\ generateRequestFingerprint(resp.req) = generateRequestFingerprint(resp'.req)
              /\ ~ChangeCounted

\* C30: a change in any of the four headers user-agent, accept-language,
\* accept-encoding, accept between two consecutive API requests of one origin
\* changes the value of generateRequestFingerprint and is counted as a
\* fingerprint change by fingerprintAnomalyDetection; requests that agree in
\* the four headers have the same fingerprint, whatever else differs.
C30_FingerprintOfFourHeaders == [][FingerprintOfFourHeaders]_vars

\* a record of a ban of the origin is in a store
OnRecord(o) == RedisGet(redisStore', o) # 0 \/ o \in DOMAIN blocked'

\* the response sent last was the rejection of a detector that bans, and the
\* request answered now arrived after it, from the origin it was sent to, in
\* the same process
AfterBanningRejection ==
    /\ nreq > 0
    /\ resp.by \in Banning
    /\ NextOfOrigin

BanPrecedesResponse ==
    (Handled /\ faultsUsed' = 0) =>
        /\ resp'.by \in Banning =>
              /\ Len(resp'.calls) = 1
              /\ OnRecord(resp'.calls[1].ip)
        /\ AfterBanningRejection =>
              /\ resp'.by = "gate"
              /\ resp'.status = 403

\* C31: for every detector that rejects with a ban, the ban record is in the
\* store when the rejection response is sent, and the next request of the
\* same origin, arriving after that response, is answered 403 by the ban gate.
C31_BanPrecedesResponse == [][BanPrecedesResponse]_vars

\* a ban record of origin o that has not run out is still there after the
\* step, with the same or a later expiry
ExpiryKept(o) ==
    /\ RedisGet(redisStore, o) # 0 => RedisGet(redisStore', o) >= RedisGet(redisStore, o)
    /\ (o \in DOMAIN blocked /\ now < blocked[o]) =>
           (o \in DOMAIN blocked' /\ blocked'[o] >= blocked[o])

BanNeverShortened ==
    (now' = now /\ epoch' = epoch /\ resp'.unbans = <<>>) =>
        \A o \in DOMAIN ledger :
            /\ ExpiryKept(o)
            /\ (LedgerLive(o) /\ o \in DOMAIN ledger') => ledger'[o].until >= ledger[o].until

\* C32: once an origin is banned until time T, no interleaving of its requests
\* (those already past the ban gate when the ban was written included) makes
\* it unbanned before T unless an admin unban occurs: a later blockIP never
\* moves an existing expiry earlier.
C32_BanNeverShortened == [][BanNeverShortened]_vars

\* the last response is that of a successful unblockIP: the admin route
\* answered 200, unblockIP has found a record to delete, and no blockIP for
\* the origin has been carried out since
Unblocked ==
    /\ resp.by = "unblock"
    /\ resp.status = 200
    /\ resp.existed
    /\ BodyOf(resp.req).ip \notin DOMAIN ledger
    /\ \A i \in 1..Len(inflight) : inflight[i].op.kind \notin {"setex", "del"}

\* C33: after a successful unblockIP(origin) the ban check for that origin
\* returns false until the next blockIP for it, whether Redis answers the
\* check or fails it: no record left in the in-memory map or in Redis makes
\* the origin banned again.
C33_UnblockLeavesNoBan ==
    Unblocked => \A f \in BOOLEAN : ~BanCheck(BodyOf(resp.req).ip, f)

RetryAfterInRange ==
    (Handled /\ resp'.by = "gate" /\ resp'.status = 403 /\ faultsUsed' = 0
        /\ Sender \in DOMAIN ledger) =>
        /\ resp'.retry >= 1
        /\ resp'.retry <= ledger[Sender].min

\* C34: whenever ipBlockingMiddleware rejects a request with 403, the
\* retryAfter it reports is at least 1 and at most the duration in minutes of
\* the ban in force, in the in-process mode and in the Redis mode (runs in
\* which no Redis call has failed).
C34_RetryAfterInRange == [][RetryAfterInRange]_vars

\* the step is a run of the periodic sweep
SweepStep == sweepDue' # sweepDue /\ epoch' = epoch

SweepChangesNoVerdict ==
    SweepStep =>
        /\ \A o \in DOMAIN blocked \cup DOMAIN redisStore :
              \A f \in BOOLEAN : BanCheck(o, f)' = BanCheck(o, f)
        /\ \A o \in DOMAIN blocked :
              o \notin DOMAIN blocked' => MemoryExpired(blocked[o])
        /\ \A o \in DOMAIN tracking :
              o \notin DOMAIN tracking' => now - tracking[o].firstRequest > TrackingGcMs

\* C35: the periodic sweep never changes the outcome of a ban check: the ban
\* records it deletes are records the in-memory ban check treats as expired,
\* and it deletes a tracking record only when now - firstRequest exceeds one
\* hour.
C35_SweepChangesNoVerdict == [][SweepChangesNoVerdict]_vars

\* the longest ban any detector asks for
LongestBanMs == FloodCapMinutes * MsPerMinute

\* the expiry of the latest ban of origin o lies after the time it was written
\* and at most 1440 minutes after it, and so does the record the store holds
BanBounded(o) ==
    /\ ledger[o].min >= 1
    /\ ledger[o].at < ledger[o].until
    /\ ledger[o].until <= ledger[o].at + LongestBanMs
    /\ \A s \in LiveRecords(o) :
          /\ RecordExpiry(o, s) > ledger[o].at
          /\ RecordExpiry(o, s) <= ledger[o].at + LongestBanMs

\* C36: every ban ever written has a positive duration of at most 1440
\* minutes: each ban record's expiry is later than the time it was written and
\* no more than 1440 minutes after it, and the duration flood detection
\* computes lies between 1 and 1440 minutes for every value of the violations
\* counter.
C36_BanDurationBounded ==
    /\ \A o \in DOMAIN ledger : BanBounded(o)
    /\ \A v \in 1..MaxViolations : FloodBlockDuration(v) \in 1..FloodCapMinutes

\* flood detection has banned an origin that had earlier violations in the
\* window, for longer than its first step
C36_Witness ==
    /\ resp.by = "flood"
    /\ Len(resp.bans) = 1
    /\ resp.bans[1].min > FloodStepMinutes
    /\ LiveRecords(Attacker) # {}
    /\ tracking[Attacker].violations > 1

NonApiLeavesCounters ==
    (Handled /\ ~IsApiPath(resp'.req.path)) =>
        /\ resp'.touched \cap {"tracking", "patterns"} = {}
        /\ tracking' = tracking
        /\ patterns' = patterns

\* C37: a request whose path does not start with /api leaves the
\* request-tracking map and the recent-signature map unchanged: flood,
\* rapid-repeat and fingerprint detection pass it through.
C37_NonApiLeavesCounters == [][NonApiLeavesCounters]_vars

\* a request for / has gone through the three counting detectors while its
\* origin had a tracking record and a recent signature
C37_Witness ==
    /\ resp.req.path = PathRoot
    /\ Did(resp.ran, "flood") /\ Did(resp.ran, "rapid") /\ Did(resp.ran, "fingerprint")
    /\ getClientIp(resp.req) \in DOMAIN tracking
    /\ tracking[getClientIp(resp.req)].count > 0
    /\ patterns # EmptyMap

====
